---- MODULE Spec2Model ----
(***************************************************************************)
(* Verification model of the autonomous agent (peixy0/my-agent).           *)
(*                                                                         *)
(* Spec       the Scheduler event loop of agent/main.py together with the  *)
(*            producers of the event queue (HTTP ingress, chat receiver,   *)
(*            heartbeat timer).                                            *)
(* SpecAgent  the LLM <-> tool loop of agent/llm/agent.py (Agent.run,      *)
(*            Agent._chat, Orchestrator.process, _handle_tool_call) and    *)
(*            the handler wrapper of agent/tools/tool_registry.py.         *)
(***************************************************************************)
EXTENDS Integers, Sequences, FiniteSets, TLC

\* ------------------------------------------------------------------------
\* Bounds of the model
\* ------------------------------------------------------------------------
\* events the producers may leave waiting in the (unbounded) asyncio.Queue
MaxQueue == 2
\* LLM completions issued while one event is processed
MaxIter == 2
\* heartbeat-arm task objects alive at one time
MaxTasks == 2
\* wake_interval_seconds, measured in clock ticks
WakeTicks == 1

\* completions one Agent.run call may issue
MaxTurns == 2
\* tool calls in one assistant message
MaxCalls == 2

\* characters of a stored file
MaxLen == 3
\* edits in one edit_file call
MaxEdits == 2

\* events one Scheduler handles in a row, and agent.run calls per event
MaxEvents == 2
MaxRuns == 2

\* successful write_file calls on the path
MaxWrites == 2
MaxCallers == 2

\* attempts of one completion
MaxAttempts == 10

\* how far beyond the limit the output of a command goes
MaxExtra == 2

\* messages in the list handed to Agent.compress
MaxHistory == 2

\* (chat_id, message_id) pairs the producers submit
HumanInputs == {<<"c1", "m1">>, <<"c1", "m2">>, <<"c2", "m1">>}

VARIABLES
    \* ---- Scheduler (agent/main.py) ----
    queue,            \* app.event_queue
    pc,               \* position of Scheduler.run
    event,            \* the local `event` of Scheduler.run
    heartbeat_task,   \* Scheduler.heartbeat_task (0 models None)
    tasks,            \* the asyncio tasks created from _schedule_heartbeat
    active,           \* the event-processing coroutines that are in flight
    outcome,          \* how the handling of `event` ended
    messaging_log,    \* calls made on app.messaging while handling `event`
    \* ---- history variables ----
    armed_at_take,    \* arm-tasks that were pending when `event` was taken
    since_end,        \* ticks since the handling of the last event ended
    processed         \* (chat_id, message_id) pairs whose handling completed

schedVars == <<queue, pc, event, heartbeat_task, tasks, active, outcome,
               messaging_log, armed_at_take, since_end, processed>>

VARIABLES
    \* ---- Agent and Orchestrator (agent/llm/agent.py) ----
    system_prompt,    \* Agent.system_prompt
    system_messages,  \* Agent.system_messages
    messages,         \* the `messages` list handed to Agent.run
    apc,              \* position of Agent.run / Agent._chat
    orchestrator,     \* the orchestrator handed to Agent.run
    run_prompt,       \* the `system_prompt` argument of the running call
    prev_prompt,      \* the `system_prompt` argument of the call before it
    turn,             \* completions issued so far by the running call
    sent,             \* messages_to_be_sent of the latest do_completion
    response,         \* the latest LLM response
    tool_results,     \* the slots asyncio.gather fills, one per tool call
    finish_order,     \* the order in which the calls of the latest gather finished
    iterations,       \* the iterations of the running call that process ended
    handlers,         \* the name -> handler dict of the tool registry
    sends,            \* calls made on messaging during the running call
    result,           \* the value Agent.run returned
    error             \* where an exception left Agent.run, if one did

agentVars == <<system_prompt, system_messages, messages, apc, orchestrator,
               run_prompt, prev_prompt, turn, sent, response, tool_results,
               finish_order, iterations, handlers, sends, result, error>>

VARIABLES
    \* ---- one Orchestrator._handle_tool_call (agent/llm/agent.py) ----
    tool_call,        \* the `tool_call` argument
    hpc,              \* position of _handle_tool_call
    elapsed,          \* seconds since asyncio.wait_for was entered
    invocations,      \* how often the tool function was invoked for the call
    behaviour,        \* how the tool function ended, if it did
    wrapped_result,   \* what wrapped_tool handed to _handle_tool_call
    tool_result       \* what _handle_tool_call produced

callVars == <<tool_call, hpc, elapsed, invocations, behaviour, wrapped_result,
              tool_result>>

VARIABLES
    \* ---- ToolRegistry objects (agent/tools/tool_registry.py) ----
    registry,         \* a registry r: its _schemas, _handlers, _tool_timeout
    copy,             \* c = r.clone(), once it was made
    dicts,            \* the dict objects the registries refer to
    last_op           \* the registry operation performed last

registryVars == <<registry, copy, dicts, last_op>>

VARIABLES
    \* ---- Runtime.edit_file (agent/core/runtime.py) ----
    file,             \* the stored content of the file, or Missing
    epc,              \* "written" after write_file, "edited" after edit_file
    runtime,          \* the Runtime variant the last call was made on
    file_before,      \* the stored content when edit_file was called
    edits,            \* the `edits` argument of the edit_file call
    edit_result       \* what edit_file returned

editVars == <<file, epc, runtime, file_before, edits, edit_result>>

VARIABLES
    \* ---- one event handler of the Scheduler and the history of the
    \*      agent it runs (agent/main.py, agent/core/agent.py) ----
    h_event,          \* the event _process_heartbeat/_process_human_input handles
    h_pc,             \* "idle", or "chat" while agent.run awaits the LLM
    h_count,          \* events handled so far, the one in hand included
    h_runs,           \* agent.run calls made for h_event
    agent_messages,   \* Agent.messages, the system message left out
    chat_messages,    \* the list the latest llm_client.chat call was given
    h_log             \* calls made on app.messaging for h_event

handlerVars == <<h_event, h_pc, h_count, h_runs, agent_messages,
                 chat_messages, h_log>>

VARIABLES
    \* ---- the HTTP endpoints (agent/api/server.py) ----
    api_queue,        \* the event_queue create_api was given
    http_request,     \* the request served last
    http_response,    \* the answer to it
    api_queue_before  \* event_queue when that request came in

serverVars == <<api_queue, http_request, http_response, api_queue_before>>

VARIABLES
    \* ---- one Agent.compress call (agent/llm/agent.py) ----
    compress_messages, \* the `messages` argument
    cpc,               \* position of compress
    completions,       \* the do_completion calls compress has issued
    summary_content,   \* response.choices[0].message.content
    compress_result    \* what compress returned

compressVars == <<compress_messages, cpc, completions, summary_content,
                  compress_result>>

VARIABLES
    \* ---- one call of a Runtime method (agent/core/runtime.py) ----
    rt_variant,       \* the Runtime variant the call is made on
    rt_op,            \* the method called
    rt_process,       \* what the subprocesses / file operations of the call do
    rt_result         \* what the call returned, or the exception that left it

runtimeVars == <<rt_variant, rt_op, rt_process, rt_result>>

VARIABLES
    \* ---- one _do_completion call (agent/llm/openai.py, agent/llm_openai.py)
    llm_client,       \* the class the call is made on
    rpc,              \* "idle", "attempt", "sleeping", "returned", "raised"
    attempts,         \* completions.create calls made so far
    failures,         \* how many of them raised
    last_error,       \* the exception of the latest failed attempt
    waits             \* the sleeps between the attempts, in seconds

retryVars == <<llm_client, rpc, attempts, failures, last_error, waits>>

VARIABLES
    \* ---- write_file and read_file_internal on one path
    \*      (agent/core/runtime.py) ----
    fs_runtime,       \* the Runtime variant in use
    fs_dir,           \* whether the parent directory of the path exists
    fs_file,          \* whether the path exists, and the bytes stored at it
    fs_op,            \* the method called last
    fs_result,        \* what it returned, or the exception that left it
    fs_written,       \* the content of the last write_file that succeeded
    fs_writes         \* write_file calls that succeeded

fileVars == <<fs_runtime, fs_dir, fs_file, fs_op, fs_result, fs_written,
              fs_writes>>

\* what the actions of one unit leave alone
oldVars == <<schedVars, agentVars, callVars, registryVars, editVars>>

VARIABLES
    \* ---- one read_file call (agent/core/runtime.py) ----
    rd_runtime,       \* the Runtime variant the call is made on
    rd_file,          \* the file: whether it exists and its number of lines
    rd_call,          \* the arguments start_line and limit
    rd_result         \* the dictionary read_file returned

readVars == <<rd_runtime, rd_file, rd_call, rd_result>>

VARIABLES
    \* ---- one ContainerCommandExecutor.edit_file call
    \*      (agent/tools/command_executor.py) ----
    ex_file,          \* the content _read_whole_file returned
    ex_edits,         \* the `edits` argument
    ex_result,        \* the status edit_file returned
    ex_written        \* the content handed to write_file, when it was called

execVars == <<ex_file, ex_edits, ex_result, ex_written>>

VARIABLES
    \* ---- the arguments of one tool call (agent/llm/agent.py
    \*      Orchestrator._handle_tool_call) ----
    da_model,         \* Orchestrator.model
    da_arguments,     \* json.loads(tool_call.function.arguments)
    da_called,        \* the arguments the handler was called with, if it was
    da_result         \* the result of the ToolCallResult returned

argVars == <<da_model, da_arguments, da_called, da_result>>

VARIABLES
    \* ---- one chat(messages, max_iterations) call (agent/llm.py,
    \*      agent/llm/base.py, agent/llm/openai.py) ----
    ch_class,         \* the class the call is made on
    ch_max,           \* the max_iterations argument
    ch_pc,            \* "idle", "loop", "returned" or "raised"
    ch_iteration,     \* iterations of the loop entered so far
    ch_completions,   \* _do_completion calls made so far
    ch_handled        \* iterations in which a tool handler was invoked

chatVars == <<ch_class, ch_max, ch_pc, ch_iteration, ch_completions,
              ch_handled>>

VARIABLES
    \* ---- the message list of the agent over its runs
    \*      (agent/core/agent.py Agent.run, agent/llm.py LLMClient.chat) ----
    lp_messages,      \* Agent.messages
    lp_pc,            \* "idle" between runs, "chat" inside LLMClient.chat
    lp_runs,          \* runs started so far
    lp_turns,         \* completions of the running chat call
    lp_sent           \* the list the last completion was issued with

loopVars == <<lp_messages, lp_pc, lp_runs, lp_turns, lp_sent>>

VARIABLES
    \* ---- the rate limiter of LLMClient._do_completion (agent/llm.py,
    \*      agent/llm_openai.py) ----
    rl_clock,         \* time.monotonic(), in ticks
    rl_next,          \* self._next_request_time
    rl_lock,          \* whether _rate_limit_lock is held
    rl_reserved,      \* next_request_time of every request so far
    rl_starts         \* the time at which each request called the API

rateVars == <<rl_clock, rl_next, rl_lock, rl_reserved, rl_starts>>

VARIABLES
    \* ---- AgentEvents (agent/core/events.py) ----
    ev_input,         \* the items of the queue AgentEvents.input
    ev_output,        \* the items of the queue AgentEvents.output
    ev_getters,       \* the request_input calls waiting in input.get()
    ev_puts,          \* input events put so far
    ev_returned       \* per request: the input event whose data it returned

eventVars == <<ev_input, ev_output, ev_getters, ev_puts, ev_returned>>

\* the groups of the remaining units, and what the actions of each leave alone
unitVars == <<readVars, execVars, argVars, chatVars, loopVars, rateVars, eventVars>>
baseVars == <<oldVars, handlerVars, serverVars, compressVars, runtimeVars,
              retryVars, fileVars>>
readFrame == <<baseVars, execVars, argVars, chatVars, loopVars, rateVars, eventVars>>
execFrame == <<baseVars, readVars, argVars, chatVars, loopVars, rateVars, eventVars>>
argFrame == <<baseVars, readVars, execVars, chatVars, loopVars, rateVars, eventVars>>
chatFrame == <<baseVars, readVars, execVars, argVars, loopVars, rateVars, eventVars>>
loopFrame == <<baseVars, readVars, execVars, argVars, chatVars, rateVars, eventVars>>
rateFrame == <<baseVars, readVars, execVars, argVars, chatVars, loopVars, eventVars>>
eventFrame == <<baseVars, readVars, execVars, argVars, chatVars, loopVars, rateVars>>

moreVars == <<handlerVars, serverVars, compressVars, runtimeVars, retryVars,
              fileVars, unitVars>>

handlerFrame == <<oldVars, serverVars, compressVars, runtimeVars, retryVars,
                  fileVars, unitVars>>
serverFrame == <<oldVars, handlerVars, compressVars, runtimeVars, retryVars,
                 fileVars, unitVars>>
compressFrame == <<oldVars, handlerVars, serverVars, runtimeVars, retryVars,
                   fileVars, unitVars>>
runtimeFrame == <<oldVars, handlerVars, serverVars, compressVars, retryVars,
                  fileVars, unitVars>>
retryFrame == <<oldVars, handlerVars, serverVars, compressVars, runtimeVars,
                fileVars, unitVars>>
fileFrame == <<oldVars, handlerVars, serverVars, compressVars, runtimeVars,
               retryVars, unitVars>>

libVars == <<callVars, registryVars, editVars, moreVars>>

vars == <<schedVars, agentVars, libVars>>

\* ------------------------------------------------------------------------
\* Events (agent.core.events as used by main.py and api/server.py)
\* ------------------------------------------------------------------------
HeartbeatEvent == [type |-> "heartbeat"]
\* the text that came with message m: the second message of a chat is the
\* command /compress
TextOf(m) == IF m = "m2" THEN "/compress" ELSE "hello"

HumanInputEvent(c, m) ==
    [type |-> "human", chat_id |-> c, message_id |-> m, content |-> TextOf(m)]
NoEvent == [type |-> "none"]

TaskIds == 1..MaxTasks
FreeTask == [st |-> "free", remaining |-> 0]

\* smallest task slot that holds no task object
FreshTask(tk) == CHOOSE t \in TaskIds :
                    /\ tk[t].st = "free"
                    /\ \A u \in TaskIds : tk[u].st = "free" => t <= u

\* finished task objects nobody refers to any more are dropped
Collect(tk, refs) ==
    [t \in TaskIds |->
        IF tk[t].st \in {"fired", "cancelled"} /\ t \notin refs
        THEN FreeTask ELSE tk[t]]

Min(a, b) == IF a < b THEN a ELSE b
Max(a, b) == IF a > b THEN a ELSE b

FreshRun(act) == CHOOSE n \in 1..(Cardinality(act) + 1) :
                    /\ \A r \in act : r.id # n
                    /\ \A k \in 1..(n - 1) : \E r \in act : r.id = k

\* ------------------------------------------------------------------------
\* Messages, LLM responses and tool calls (agent/llm/agent.py)
\* ------------------------------------------------------------------------
\* ToolRegistry.__init__: tool_timeout
ToolTimeout == 60

Prompts == {"p1", "p2"}
Contents == {"", " ok "}
\* final answers of the runs that are checked for what they report
ReportContents == {"", " ok ", " NO_REPORT ", "idle NO_REPORT", "NO_REPORT?"}
FinishReasons == {"stop", "length"}
Behaviours == {"return", "raise", "timeout"}

HeartbeatOrchestrator == [kind |-> "heartbeat", chat_id |-> "", message_id |-> ""]
HumanInputOrchestrator(c, m) == [kind |-> "human", chat_id |-> c, message_id |-> m]
Orchestrators == {HeartbeatOrchestrator, HumanInputOrchestrator("c1", "m1")}

\* tool names of the shared registry, and those register_instance_tool adds
DefaultTools == {"run_command"}
InstanceTools == {"add_reaction", "send_image"}
\* HumanInputOrchestrator.__init__ registers its instance tools in the dict it
\* got from the registry
RegisterInstanceTools(h, orch) ==
    IF orch.kind = "human" THEN h \cup InstanceTools ELSE h

\* the (name, arguments) an assistant message may ask for
CallShapes == {[name |-> "run_command", arguments |-> "valid"],
               [name |-> "nosuch", arguments |-> "valid"]}
CallSeqs == UNION {[1..n -> CallShapes] : n \in 0..MaxCalls}
\* for the runs that are checked for what they report: calls of the one
\* registered tool
ReportCallSeqs ==
    UNION {[1..n -> {[name |-> "run_command", arguments |-> "valid"]}] :
              n \in 0..MaxCalls}

Msg(role, content, tool_calls, tool_call_id) ==
    [role |-> role, content |-> content, tool_calls |-> tool_calls,
     tool_call_id |-> tool_call_id]
SystemMessage(prompt) == Msg("system", prompt, <<>>, "")
UserMessage(content) == Msg("user", content, <<>>, "")
AssistantMessage(content, tcs) == Msg("assistant", content, tcs, "")
ToolMessage(id, content) == Msg("tool", content, <<>>, id)

\* json.dumps(result)
Json(r) == [json |-> r]

\* the tool calls of the completion number t, with the ids the LLM gave them
ToolCalls(shapes, t) ==
    [i \in DOMAIN shapes |->
        [id |-> "call_" \o ToString(t) \o "_" \o ToString(i),
         name |-> shapes[i].name, arguments |-> shapes[i].arguments]]

NoMessage == Msg("none", "", <<>>, "")
NoResponse == [message |-> NoMessage, finish_reason |-> "none"]

\* str.strip() on the contents of the model
Strip(c) ==
    CASE c = " ok " -> "ok"
      [] c = " NO_REPORT " -> "NO_REPORT"
      [] OTHER -> c

Contains(parts, text) == \E i \in DOMAIN parts : parts[i] = text

\* a call either returns a value or raises
Ok(v) == [raised |-> FALSE, value |-> v]
Raised(e) == [raised |-> TRUE, value |-> e]

ErrorResult(parts) == [status |-> "error", message |-> parts]

\* what the handler of a call produces when it returns, and the text of the
\* exception when it raises: each names its own call
HandlerResult(tc) == [status |-> "success", message |-> <<"output of " \o tc.id>>]
ErrorText(tc) == "boom in " \o tc.id

\* ToolRegistry._wrap_tool, wrapped_tool: the handler returned, ran into the
\* timeout of asyncio.wait_for, or raised. `except asyncio.TimeoutError` also
\* takes a TimeoutError that the tool function raised itself ("raise_timeout")
WrappedTool_LosesText(tc, b) ==
    CASE b = "return" -> Ok(HandlerResult(tc))
      [] b \in {"timeout", "raise_timeout"} ->
            Ok(ErrorResult(<<"Tool ", tc.name, " timed out after ",
                             ToString(ToolTimeout), "s">>))
      [] OTHER -> Ok(ErrorResult(<<"tool failed">>))

WrappedTool(tc, b) ==
    CASE b = "return" -> Ok(HandlerResult(tc))
      [] b \in {"timeout", "raise_timeout"} ->
            Ok(ErrorResult(<<"Tool ", tc.name, " timed out after ",
                             ToString(ToolTimeout), "s">>))
      [] OTHER -> Ok(ErrorResult(<<ErrorText(tc)>>))

ToolCallResult(id, name, args, res) ==
    [tool_id |-> id, tool_name |-> name, args |-> args, result |-> res]

\* the handler of a call is invoked only for a known tool with arguments that
\* parse and validate
Dispatched_Always(h, tc) == TRUE

Dispatched(h, tc) == tc.name \in h /\ tc.arguments = "valid"

\* Orchestrator._handle_tool_call
HandleToolCall(h, tc, b) ==
    IF tc.name \notin h
    THEN Ok(ToolCallResult(tc.id, tc.name, "{}",
                ErrorResult(<<"No such tool named ", tc.name>>)))
    ELSE IF tc.arguments = "bad_json"
    THEN Ok(ToolCallResult(tc.id, tc.name, "{}",
                ErrorResult(<<"Invalid JSON in tool call arguments: ">>)))
    ELSE IF tc.arguments = "bad_schema"
    THEN Ok(ToolCallResult(tc.id, tc.name, tc.arguments,
                ErrorResult(<<"Invalid tool call arguments: ">>)))
    ELSE LET r == WrappedTool(tc, b)
         IN Ok(ToolCallResult(tc.id, tc.name, tc.arguments,
                  IF r.raised
                  THEN ErrorResult(<<"Exception occured during tool call: ",
                                     r.value>>)
                  ELSE r.value))

\* what `await asyncio.gather(*[...])` hands back: the results in the order of
\* the awaitables, whatever the order in which they finished
GatherResults_AsCompleted(slots, order) ==
    [j \in DOMAIN order |-> slots[order[j]].value]

GatherResults(slots, order) ==
    [i \in DOMAIN slots |-> slots[i].value]

\* Orchestrator.process, lines 83-95: one tool message per result
ToolReplies(results) ==
    [i \in DOMAIN results |->
        ToolMessage(results[i].tool_id, Json(results[i].result))]

SendMessage(chat, text) == [op |-> "send_message", to |-> chat, text |-> text]
Notify(text) == [op |-> "notify", to |-> "", text |-> text]

\* content.endswith("NO_REPORT") on the contents of the model
EndsWithNoReport(c) == c \in {"NO_REPORT", " NO_REPORT", "idle NO_REPORT"}

\* _before_tool_use of the two orchestrators: the messaging calls it makes
BeforeToolUse_Silent(orch, message) == <<>>

BeforeToolUse(orch, message) ==
    IF orch.kind = "human" /\ message.content # ""
    THEN <<SendMessage(orch.chat_id, message.content)>>
    ELSE <<>>

\* _on_final_response of the two orchestrators: the messaging calls it makes
OnFinalResponse_NotifiesAll(orch, content) ==
    IF orch.kind = "human"
    THEN <<SendMessage(orch.chat_id, content)>>
    ELSE <<Notify(content)>>

OnFinalResponse(orch, content) ==
    IF orch.kind = "human"
    THEN <<SendMessage(orch.chat_id, content)>>
    ELSE IF content # "" /\ ~EndsWithNoReport(content)
         THEN <<Notify(content)>>
         ELSE <<>>

\* Orchestrator.process, lines 97-106: the message carries no tool call
ProcessNoToolCalls_IgnoresFinish(orch, message, finish_reason) ==
    [reply |-> <<>>,
     sends |-> OnFinalResponse(orch, Strip(message.content))]

ProcessNoToolCalls(orch, message, finish_reason) ==
    IF finish_reason # "stop"
    THEN [reply |-> <<UserMessage("continue")>>, sends |-> <<>>]
    ELSE [reply |-> <<>>,
          sends |-> OnFinalResponse(orch, Strip(message.content))]

\* Agent._set_system_prompt: the new value of system_messages
SetSystemPrompt_Appends(old, prompt) == Append(old, SystemMessage(prompt))

SetSystemPrompt(old, prompt) == <<SystemMessage(prompt)>>

\* Agent._chat, lines 324-325
MessagesToBeSent(sysmsgs, msgs) == sysmsgs \o msgs

\* Agent._chat, line 349: `if not reply: return response`
ChatReturns_OnNudge(reply) == reply = <<>> \/ reply[1].role = "user"

ChatReturns(reply) == reply = <<>>

\* the calls a single _handle_tool_call is tried on: known and unknown names,
\* arguments that parse and validate, that are no JSON, that fail the schema
ToolNames == {"run_command", "nosuch"}
Arguments == {"valid", "bad_json", "bad_schema"}
NoCall == [id |-> "", name |-> "", arguments |-> ""]
NoOutcome == Ok("none")

\* how the tool function under wrapped_tool can end before the timeout
HandlerEndings == {"return", "raise", "raise_timeout"}

\* asyncio.wait_for(func(**kwargs), timeout=self._tool_timeout) gives up
WaitForExpired_Never(t) == FALSE

WaitForExpired(t) == t >= ToolTimeout

\* no _handle_tool_call is running
CallInit ==
    /\ tool_call = NoCall
    /\ hpc = "idle"
    /\ elapsed = 0
    /\ invocations = 0
    /\ behaviour = "none"
    /\ wrapped_result = NoOutcome
    /\ tool_result = NoOutcome

\* ---- files and edits ----
Chars == {"a", "b"}
Texts(n) == UNION {[1..k -> Chars] : k \in 0..n}
Files == Texts(MaxLen)
Missing == <<"missing">>
Runtimes == {"host", "container"}
SearchBlocks == {<<>>, <<"a">>, <<"b">>, <<"a", "a">>, <<"a", "b">>}
ReplaceBlocks == {<<>>, <<"a", "a">>}
Edits == [search : SearchBlocks, replace : ReplaceBlocks]
EditLists == UNION {[1..k -> Edits] : k \in 0..MaxEdits}

\* the block s stands in c at position i
OccursAt(c, s, i) ==
    /\ i + Len(s) - 1 <= Len(c)
    /\ SubSeq(c, i, i + Len(s) - 1) = s

\* every position at which s occurs in c
Occurrences(c, s) == {i \in 1..(Len(c) + 1) : OccursAt(c, s, i)}

\* `search_block in content`
In(s, c) == Occurrences(c, s) # {}

\* content.count(search_block): str.count goes left to right and does not
\* count an occurrence that overlaps the one counted before
RECURSIVE CountFrom(_, _, _)
CountFrom(c, s, i) ==
    IF i + Len(s) - 1 > Len(c) THEN 0
    ELSE IF OccursAt(c, s, i) THEN 1 + CountFrom(c, s, i + Len(s))
    ELSE CountFrom(c, s, i + 1)

Count(c, s) == IF s = <<>> THEN Len(c) + 1 ELSE CountFrom(c, s, 1)

\* content.replace(search_block, replace_block, 1)
Replace1(c, s, r) ==
    LET i == CHOOSE j \in Occurrences(c, s) :
                 \A k \in Occurrences(c, s) : j <= k
    IN  SubSeq(c, 1, i - 1) \o r \o SubSeq(c, i + Len(s), Len(c))

\* the for loop of edit_file over the content read from the file
RECURSIVE ApplyEdits(_, _)
ApplyEdits(content, es) ==
    IF es = <<>> THEN [status |-> "success", content |-> content]
    ELSE IF In(es[1].search, content)
    THEN IF Count(content, es[1].search) > 1
         THEN [status |-> "error", content |-> content]
         ELSE ApplyEdits(Replace1(content, es[1].search, es[1].replace), Tail(es))
    ELSE [status |-> "error", content |-> content]

\* nothing was written or edited yet
EditInit ==
    /\ file = Missing
    /\ epc = "none"
    /\ runtime = "host"
    /\ file_before = Missing
    /\ edits = <<>>
    /\ edit_result = "none"

\* ToolRegistry(tool_timeout=5) of the registry tests
TestTimeout == 5

\* names, tool functions and the dict objects of the registries r and c
RegistryNames == {"t1", "t2"}
ToolFunctions == {"f1", "f2"}
DictIds == 1..4
EmptyDict == [n \in RegistryNames |-> "absent"]
NoRegistry == [schemas |-> 0, handlers |-> 0, tool_timeout |-> 0]

\* ToolRegistry.__init__: fresh dicts
NewRegistry(t) == [schemas |-> 1, handlers |-> 2, tool_timeout |-> t]

\* ToolRegistry.register, lines 61-66: the entries it stores under the name
SchemaEntry(name, f) == "schema of " \o f \o " as " \o name
HandlerEntry(name, f) == "wrapped " \o f \o " as " \o name

\* ToolRegistry.clone: the new registry object, with dicts of its own
CloneRefs_Shared(reg) ==
    [schemas |-> reg.schemas, handlers |-> reg.handlers,
     tool_timeout |-> reg.tool_timeout]

CloneRefs(reg) ==
    [schemas |-> 3, handlers |-> 4, tool_timeout |-> reg.tool_timeout]

\* the schema and handler maps a registry exposes
SchemasOf(reg) == dicts[reg.schemas]
HandlersOf(reg) == dicts[reg.handlers]
NamesOf(reg) == {n \in RegistryNames : SchemasOf(reg)[n] # "absent"}

RegistryInit ==
    /\ registry = NewRegistry(ToolTimeout)
    /\ copy = NoRegistry
    /\ dicts = [d \in DictIds |-> EmptyDict]
    /\ last_op = "init"

\* state after Agent.__init__: nothing is running
AgentInit ==
    /\ system_prompt = ""
    /\ system_messages = <<>>
    /\ messages = <<>>
    /\ apc = "idle"
    /\ orchestrator = HeartbeatOrchestrator
    /\ run_prompt = ""
    /\ prev_prompt = ""
    /\ turn = 0
    /\ sent = <<>>
    /\ response = NoResponse
    /\ tool_results = <<>>
    /\ finish_order = <<>>
    /\ iterations = <<>>
    /\ handlers = DefaultTools
    /\ sends = <<>>
    /\ result = NoResponse
    /\ error = "none"

\* state after Agent.__init__ and before the first event: self.messages
\* holds the system message only, no handler is running
HandlerInit ==
    /\ h_event = NoEvent
    /\ h_pc = "idle"
    /\ h_count = 0
    /\ h_runs = 0
    /\ agent_messages = <<>>
    /\ chat_messages = <<>>
    /\ h_log = <<>>

\* state after create_api(event_queue): nothing was requested yet
ServerInit ==
    /\ api_queue = <<>>
    /\ http_request = [method |-> "none"]
    /\ http_response = [status_code |-> 0, json |-> "none"]
    /\ api_queue_before = <<>>

\* no Runtime method was called yet
RuntimeInit ==
    /\ rt_variant = "host"
    /\ rt_op = "none"
    /\ rt_process = <<>>
    /\ rt_result = [raised |-> FALSE, value |-> [status |-> "none"]]

\* the path was never written: neither it nor its parent directory exists
FileInit ==
    /\ fs_runtime = "none"
    /\ fs_dir = FALSE
    /\ fs_file = [exists |-> FALSE, bytes |-> <<>>]
    /\ fs_op = "none"
    /\ fs_result = [raised |-> FALSE, status |-> "none", bytes |-> <<>>]
    /\ fs_written = <<>>
    /\ fs_writes = 0

\* no completion was asked for yet
RetryInit ==
    /\ llm_client = "OpenAIProvider"
    /\ rpc = "idle"
    /\ attempts = 0
    /\ failures = 0
    /\ last_error = "none"
    /\ waits = <<>>

\* Python's None
None == <<"None">>

\* no compress call was made yet
CompressInit ==
    /\ compress_messages = <<>>
    /\ cpc = "idle"
    /\ completions = <<>>
    /\ summary_content = None
    /\ compress_result = None

\* no file was read yet
ReadInit ==
    /\ rd_runtime = "none"
    /\ rd_file = [exists |-> FALSE, lines |-> 0]
    /\ rd_call = [start_line |-> 1, limit |-> 1]
    /\ rd_result = [status |-> "none", content |-> <<>>, total_lines |-> 0,
                    start_line |-> 0, returned_lines |-> 0]

\* edit_file was not called yet
ExecInit ==
    /\ ex_file = <<>>
    /\ ex_edits = <<>>
    /\ ex_result = "none"
    /\ ex_written = <<>>

\* no tool call arrived yet
ArgInit ==
    /\ da_model = "none"
    /\ da_arguments = [n \in {"filename", "start_line", "limit"} |->
                          [type |-> "absent", text |-> ""]]
    /\ da_called = [called |-> FALSE,
                    args |-> [n \in {"filename", "start_line", "limit"} |->
                                 [type |-> "absent", text |-> ""]]]
    /\ da_result = "none"

\* chat was not called yet
ChatInit ==
    /\ ch_class = "none"
    /\ ch_max = 0
    /\ ch_pc = "idle"
    /\ ch_iteration = 0
    /\ ch_completions = 0
    /\ ch_handled = 0

\* Agent.__init__, line 301: the list holds the system message
LoopInit ==
    /\ lp_messages = <<[role |-> "system", calls |-> <<>>, tool_call_id |-> 0]>>
    /\ lp_pc = "idle"
    /\ lp_runs = 0
    /\ lp_turns = 0
    /\ lp_sent = <<>>

\* LLMClient.__init__, lines 41-43: _next_request_time = 0.0, lock free
RateInit ==
    /\ rl_clock = 0
    /\ rl_next = 0
    /\ rl_lock = FALSE
    /\ rl_reserved = <<>>
    /\ rl_starts = <<>>

\* AgentEvents.__init__, lines 34-36: two empty queues
EventsInit ==
    /\ ev_input = <<>>
    /\ ev_output = <<>>
    /\ ev_getters = <<>>
    /\ ev_puts = 0
    /\ ev_returned = [c \in 1..MaxCallers |->
                        [returned |-> FALSE, type |-> "none", answers |-> 0]]

\* ------------------------------------------------------------------------
\* Init: state after Scheduler.__init__ and Application construction
\* ------------------------------------------------------------------------
Init ==
    /\ queue = <<>>
    /\ pc = "start"
    /\ event = NoEvent
    /\ heartbeat_task = 0
    /\ tasks = [t \in TaskIds |-> FreeTask]
    /\ active = {}
    /\ outcome = "none"
    /\ messaging_log = <<>>
    /\ armed_at_take = {}
    /\ since_end = WakeTicks
    /\ processed = {}
    /\ AgentInit
    /\ CallInit
    /\ RegistryInit
    /\ EditInit
    /\ HandlerInit
    /\ ServerInit
    /\ CompressInit
    /\ RuntimeInit
    /\ ReadInit
    /\ ExecInit
    /\ ArgInit
    /\ ChatInit
    /\ LoopInit
    /\ RateInit
    /\ EventsInit
    /\ RetryInit
    /\ FileInit


\* ------------------------------------------------------------------------
\* Producers of the event queue
\* ------------------------------------------------------------------------
\* POST /api/bot: submit_input puts one HumanInputEvent on the queue
SubmitInput ==
    \E h \in HumanInputs :
        /\ Len(queue) < MaxQueue
        /\ queue' = Append(queue, HumanInputEvent(h[1], h[2]))
        /\ UNCHANGED <<pc, event, heartbeat_task, tasks, active, outcome,
                       messaging_log, armed_at_take, since_end, processed,
                   agentVars, libVars>>

\* chat platform receiver: FeishuMessaging._on_message puts one event
OnMessage ==
    \E h \in HumanInputs :
        /\ Len(queue) < MaxQueue
        /\ queue' = Append(queue, HumanInputEvent(h[1], h[2]))
        /\ UNCHANGED <<pc, event, heartbeat_task, tasks, active, outcome,
                       messaging_log, armed_at_take, since_end, processed,
                   agentVars, libVars>>

\* what a task does when the event loop cancels it: a finished task is left
\* alone, a sleeping one gets CancelledError at its await and never puts
CancelTask_Ignored(tk, t) == tk

CancelTask(tk, t) ==
    IF t # 0 /\ tk[t].st = "sleeping"
    THEN [tk EXCEPT ![t] = [st |-> "cancelled", remaining |-> 0]]
    ELSE tk

\* Scheduler._schedule_heartbeat after its sleep: put(HeartbeatEvent())
ScheduleHeartbeatFire ==
    \E t \in TaskIds :
        /\ tasks[t].st = "sleeping"
        /\ tasks[t].remaining = 0
        /\ tasks' = [tasks EXCEPT ![t] = [st |-> "fired", remaining |-> 0]]
        /\ queue' = Append(queue, HeartbeatEvent)
        /\ UNCHANGED <<pc, event, heartbeat_task, active, outcome,
                       messaging_log, armed_at_take, since_end, processed,
                   agentVars, libVars>>

\* one tick of the clock: every asyncio.sleep in flight gets closer to its end
Tick ==
    /\ \/ pc = "take" /\ since_end < WakeTicks
       \/ \E t \in TaskIds : tasks[t].st = "sleeping" /\ tasks[t].remaining > 0
    /\ tasks' = [t \in TaskIds |->
                    IF tasks[t].st = "sleeping"
                    THEN [tasks[t] EXCEPT !.remaining = Max(0, @ - 1)]
                    ELSE tasks[t]]
    /\ since_end' = IF pc = "take" THEN Min(WakeTicks, since_end + 1)
                                   ELSE since_end
    /\ UNCHANGED <<queue, pc, event, heartbeat_task, active, outcome,
                   messaging_log, armed_at_take, processed,
                   agentVars, libVars>>

\* ------------------------------------------------------------------------
\* Scheduler.run
\* ------------------------------------------------------------------------
\* lines 164-172: the container check before the loop, the initial heartbeat
RunStart ==
    /\ pc = "start"
    /\ \E ok \in BOOLEAN :
        IF ok
        THEN /\ queue' = Append(queue, HeartbeatEvent)
             /\ pc' = "take"
        ELSE /\ pc' = "stopped"
             /\ UNCHANGED queue
    /\ UNCHANGED <<event, heartbeat_task, tasks, active, outcome,
                   messaging_log, armed_at_take, since_end, processed,
                   agentVars, libVars>>

\* asyncio.Queue.get: the position of the item it hands out, the oldest one
Taken_Newest(q) == Len(q)

Taken(q) == 1

\* the queue without the item at position k
Without(q, k) == SubSeq(q, 1, k - 1) \o SubSeq(q, k + 1, Len(q))

\* line 175: event = await self.app.event_queue.get()
TakeEvent ==
    /\ pc = "take"
    /\ queue # <<>>
    /\ event' = queue[Taken(queue)]
    /\ queue' = Without(queue, Taken(queue))
    /\ pc' = "check"
    /\ messaging_log' = <<>>
    /\ armed_at_take' = {t \in TaskIds : tasks[t].st = "sleeping"}
    /\ tasks' = Collect(tasks, {heartbeat_task})
    /\ since_end' = 0
    /\ UNCHANGED <<heartbeat_task, active, outcome, processed,
                   agentVars, libVars>>

\* lines 177-179: if not await self._ensure_container(): continue
\* (ensure_container_running spawns subprocesses: it answers True or False,
\*  or the spawn raises, which leaves Scheduler.run)
EnsureContainer ==
    /\ pc = "check"
    /\ \E r \in {"ok", "fail", "raise"} :
        \/ /\ r = "ok"
           /\ pc' = "dispatch"
           /\ UNCHANGED <<outcome, since_end>>
        \/ /\ r = "fail"
           /\ pc' = "take"
           /\ outcome' = "skipped"
           /\ since_end' = 0
        \/ /\ r = "raise"
           /\ pc' = "stopped"
           /\ UNCHANGED <<outcome, since_end>>
    /\ UNCHANGED <<queue, event, heartbeat_task, tasks, active,
                   messaging_log, armed_at_take, processed,
                   agentVars, libVars>>

\* where Scheduler.run continues once it has called the event's handler:
\* `await self._process_...(event)` suspends it until the handler is over
AfterDispatch_Spawned == "rearm"

AfterDispatch == "await"

\* lines 182-185 and 97-113: a HeartbeatEvent starts _process_heartbeat, which
\* builds the prompt and awaits agent.run: the first completion is in flight
ProcessHeartbeat ==
    /\ pc = "dispatch"
    /\ event.type = "heartbeat"
    /\ active' = active \cup
          {[id |-> FreshRun(active), ev |-> event, st |-> "llm", iter |-> 1,
            dup |-> FALSE]}
    /\ pc' = AfterDispatch
    /\ outcome' = "none"
    /\ UNCHANGED <<queue, event, heartbeat_task, tasks,
                   messaging_log, armed_at_take, since_end, processed,
                   agentVars, libVars>>

\* lines 186-187 and 124-152: a HumanInputEvent starts _process_human_input:
\* no look-up of the message_id, the run starts for every event
ProcessHumanInput ==
    /\ pc = "dispatch"
    /\ event.type = "human"
    /\ active' = active \cup
          {[id |-> FreshRun(active), ev |-> event, st |-> "llm", iter |-> 1,
            dup |-> <<event.chat_id, event.message_id>> \in processed]}
    /\ pc' = AfterDispatch
    /\ outcome' = "none"
    /\ UNCHANGED <<queue, event, heartbeat_task, tasks,
                   messaging_log, armed_at_take, since_end, processed,
                   agentVars, libVars>>

\* ------------------------------------------------------------------------
\* The handler of one event: agent.run and what main.py does with its answer
\* ------------------------------------------------------------------------
Replace(act, r, r2) == (act \ {r}) \cup {r2}

\* the handler is over: Scheduler.run, suspended at its await, goes on to the
\* code after the try statement
Resume(how) ==
    /\ pc' = IF pc = "await" THEN "rearm" ELSE pc
    /\ outcome' = how

\* Agent._chat, lines 327-351: one completion returns. The assistant message
\* either carries tool calls (process dispatches them), or has none and a
\* finish_reason other than "stop" (process answers "continue"), or ends the
\* run; main.py then reads message_styler_enforced from the response
LLMCompletion ==
    \E r \in active :
        /\ r.st = "llm"
        /\ \E kind \in {"tool_calls", "length", "stop"}, styled \in BOOLEAN :
            \/ /\ kind = "tool_calls"
               /\ r.iter < MaxIter
               /\ active' = Replace(active, r, [r EXCEPT !.st = "tools"])
            \/ /\ kind = "length"
               /\ r.iter < MaxIter
               /\ active' = Replace(active, r, [r EXCEPT !.iter = @ + 1])
            \/ /\ kind = "stop"
               /\ styled
               /\ active' = Replace(active, r, [r EXCEPT !.st = "log"])
            \/ /\ kind = "stop"
               /\ ~styled
               /\ r.iter < MaxIter
               /\ active' = Replace(active, r, [r EXCEPT !.st = "send"])
        /\ UNCHANGED <<queue, pc, event, heartbeat_task, tasks, outcome,
                       messaging_log, armed_at_take, since_end, processed,
                   agentVars, libVars>>

\* Orchestrator.process, lines 78-95: every tool call of the turn has been
\* awaited; the tool messages go back to the LLM in the next completion
ToolCallsDone ==
    \E r \in active :
        /\ r.st = "tools"
        /\ active' = Replace(active, r, [r EXCEPT !.st = "llm", !.iter = @ + 1])
        /\ UNCHANGED <<queue, pc, event, heartbeat_task, tasks, outcome,
                       messaging_log, armed_at_take, since_end, processed,
                   agentVars, libVars>>

\* main.py lines 114-118 and 153-157: the response is not styled, so it is
\* sent and the agent is run again with ENFORCE_STYLER_PROMPT
SendUnstyled ==
    \E r \in active :
        /\ r.st = "send"
        /\ messaging_log' = Append(messaging_log,
                                   [op |-> "send_message", text |-> "response"])
        /\ active' = Replace(active, r, [r EXCEPT !.st = "llm", !.iter = @ + 1])
        /\ UNCHANGED <<queue, pc, event, heartbeat_task, tasks, outcome,
                       armed_at_take, since_end, processed,
                   agentVars, libVars>>

\* main.py lines 119-122 and 158-161: the styled response is logged through
\* event_logger.log_agent_response and the handler returns
LogAgentResponse ==
    \E r \in active :
        /\ r.st = "log"
        /\ active' = active \ {r}
        /\ Resume("ok")
        /\ processed' = IF r.ev.type = "human"
                        THEN processed \cup {<<r.ev.chat_id, r.ev.message_id>>}
                        ELSE processed
        /\ UNCHANGED <<queue, event, heartbeat_task, tasks, messaging_log,
                       armed_at_take, since_end,
                   agentVars, libVars>>

\* what Scheduler.run does with an exception of the handler, lines 190-191:
\* `except Exception` logs it and falls through to the code after the try
OnException_Propagates == "stopped"

OnException == "rearm"

\* any await of the handler raises (LLM transport error, messaging failure,
\* a response without the expected keys, ...)
HandlerRaises ==
    \E r \in active :
        /\ active' = active \ {r}
        /\ pc' = IF pc = "await" THEN OnException ELSE pc
        /\ outcome' = "error"
        /\ UNCHANGED <<queue, event, heartbeat_task, tasks, messaging_log,
                       armed_at_take, since_end, processed,
                   agentVars, libVars>>

\* lines 193-196: cancel the stored task if there is one, then create the task
\* that sleeps wake_interval_seconds and puts a HeartbeatEvent
RearmHeartbeat ==
    /\ pc = "rearm"
    /\ \E t \in TaskIds : tasks[t].st = "free"
    /\ LET cancelled == CancelTask(tasks, heartbeat_task)
           new == FreshTask(cancelled)
           armed == [cancelled EXCEPT
                        ![new] = [st |-> "sleeping", remaining |-> WakeTicks]]
       IN /\ heartbeat_task' = new
          /\ tasks' = Collect(armed, {new} \cup armed_at_take)
    /\ since_end' = 0
    /\ pc' = "take"
    /\ UNCHANGED <<queue, event, active, outcome, messaging_log,
                   armed_at_take, processed,
                   agentVars, libVars>>

Next ==
    \/ SubmitInput
    \/ OnMessage
    \/ ScheduleHeartbeatFire
    \/ Tick
    \/ RunStart
    \/ TakeEvent
    \/ EnsureContainer
    \/ ProcessHeartbeat
    \/ ProcessHumanInput
    \/ LLMCompletion
    \/ ToolCallsDone
    \/ SendUnstyled
    \/ LogAgentResponse
    \/ HandlerRaises
    \/ RearmHeartbeat

Spec == Init /\ [][Next]_vars

\* ------------------------------------------------------------------------
\* Agent.run, Agent._chat and Orchestrator.process
\* ------------------------------------------------------------------------
PendingSlot == [done |-> FALSE, behaviour |-> "none", value |-> Ok("pending")]

Iteration(message, finish_reason, slots, reply, said) ==
    [message |-> message, finish_reason |-> finish_reason, slots |-> slots,
     reply |-> reply, sends |-> said]

\* tool calls the running call has asked for so far
RECURSIVE CallsIn(_)
CallsIn(its) ==
    IF its = <<>> THEN 0
    ELSE Len(its[1].message.tool_calls) + CallsIn(Tail(its))

\* A caller builds an orchestrator and awaits agent.run(system_prompt,
\* messages, orchestrator): _set_system_prompt, then _chat is entered
AgentRunWith(prompts) ==
    /\ apc \in {"idle", "returned", "raised"}
    /\ \E p \in prompts, orch \in Orchestrators :
        /\ handlers' = RegisterInstanceTools(handlers, orch)
        /\ orchestrator' = orch
        /\ prev_prompt' = system_prompt
        /\ run_prompt' = p
        /\ system_prompt' = p
        /\ system_messages' = SetSystemPrompt(system_messages, p)
    /\ messages' = <<UserMessage("event")>>
    /\ turn' = 0
    /\ sent' = <<>>
    /\ response' = NoResponse
    /\ tool_results' = <<>>
    /\ finish_order' = <<>>
    /\ iterations' = <<>>
    /\ sends' = <<>>
    /\ result' = NoResponse
    /\ error' = "none"
    /\ apc' = "completion"
    /\ UNCHANGED <<schedVars, libVars>>

AgentRun == AgentRunWith(Prompts)

\* Agent._chat, lines 324-351, for a completion that returns: the message is
\* appended; process either starts the gather of the tool calls or, without
\* tool calls, returns at once, and _chat returns or goes round again
CompletionReturnsWith(contents, seqs) ==
    /\ apc = "completion"
    /\ \E content \in contents, finish_reason \in FinishReasons, shapes \in seqs :
        LET message == AssistantMessage(content, ToolCalls(shapes, turn + 1))
            resp == [message |-> message, finish_reason |-> finish_reason]
            out == ProcessNoToolCalls(orchestrator, message, finish_reason)
        IN  /\ (shapes # <<>> \/ finish_reason # "stop") => turn + 1 < MaxTurns
            /\ CallsIn(iterations) + Len(shapes) <= MaxCalls
            /\ sent' = MessagesToBeSent(system_messages, messages)
            /\ turn' = turn + 1
            /\ response' = resp
            /\ IF message.tool_calls # <<>>
               THEN /\ messages' = Append(messages, message)
                    /\ sends' = sends \o BeforeToolUse(orchestrator, message)
                    /\ tool_results' = [i \in DOMAIN shapes |-> PendingSlot]
                    /\ apc' = "gather"
                    /\ UNCHANGED <<iterations, result>>
               ELSE /\ sends' = sends \o out.sends
                    /\ iterations' = Append(iterations,
                           Iteration(message, finish_reason, <<>>,
                                     out.reply, out.sends))
                    /\ tool_results' = <<>>
                    /\ IF ChatReturns(out.reply)
                       THEN /\ messages' = Append(messages, message)
                            /\ result' = resp
                            /\ apc' = "returned"
                       ELSE /\ messages' = Append(messages, message) \o out.reply
                            /\ apc' = "completion"
                            /\ UNCHANGED result
    /\ finish_order' = <<>>
    /\ UNCHANGED <<system_prompt, system_messages, orchestrator, run_prompt,
                   prev_prompt, handlers, error, schedVars, libVars>>

CompletionReturns == CompletionReturnsWith(Contents, CallSeqs)

\* do_completion raises (a BadRequestError is not retried): nothing in _chat
\* or run catches it
CompletionRaises ==
    /\ apc = "completion"
    /\ sent' = MessagesToBeSent(system_messages, messages)
    /\ turn' = turn + 1
    /\ apc' = "raised"
    /\ error' = "do_completion"
    /\ UNCHANGED <<system_prompt, system_messages, messages, orchestrator,
                   run_prompt, prev_prompt, response, tool_results,
                   finish_order, iterations, handlers, sends, result,
                   schedVars, libVars>>

\* one of the _handle_tool_call coroutines of the gather finishes; whether its
\* handler returns, raises or runs into the timeout is the tool's business
ToolCallFinishesWith(behaviours) ==
    /\ apc = "gather"
    /\ \E i \in DOMAIN tool_results :
        LET tc == response.message.tool_calls[i]
        IN  /\ ~tool_results[i].done
            /\ \E b \in behaviours \cup {"none"} :
                /\ (b # "none") <=> Dispatched(handlers, tc)
                /\ tool_results' = [tool_results EXCEPT ![i] =
                       [done |-> TRUE, behaviour |-> b,
                        value |-> HandleToolCall(handlers, tc, b)]]
            /\ finish_order' = Append(finish_order, i)
    /\ UNCHANGED <<system_prompt, system_messages, messages, apc, orchestrator,
                   run_prompt, prev_prompt, turn, sent, response, iterations,
                   handlers, sends, result, error, schedVars, libVars>>

ToolCallFinishes == ToolCallFinishesWith(Behaviours)

\* Orchestrator.process, lines 80-95, and Agent._chat, lines 348-351: the
\* gather is complete, the tool messages are built and the loop goes on
GatherReturns ==
    /\ apc = "gather"
    /\ \A i \in DOMAIN tool_results : tool_results[i].done
    /\ LET outcomes == GatherResults(tool_results, finish_order)
           results == [i \in DOMAIN outcomes |-> outcomes[i].value]
           reply == ToolReplies(results)
       IN  IF \E i \in DOMAIN outcomes : outcomes[i].raised
           THEN /\ apc' = "raised"
                /\ error' = "process"
                /\ UNCHANGED <<messages, iterations, result>>
           ELSE /\ iterations' = Append(iterations,
                       Iteration(response.message, response.finish_reason,
                                 tool_results, reply,
                                 BeforeToolUse(orchestrator, response.message)))
                /\ IF ChatReturns(reply)
                   THEN /\ result' = response
                        /\ apc' = "returned"
                        /\ UNCHANGED messages
                   ELSE /\ messages' = messages \o reply
                        /\ apc' = "completion"
                        /\ UNCHANGED result
                /\ UNCHANGED error
    /\ tool_results' = <<>>
    /\ UNCHANGED <<system_prompt, system_messages, orchestrator, run_prompt,
                   prev_prompt, turn, sent, response, finish_order, handlers,
                   sends, schedVars, libVars>>

NextAgent ==
    \/ AgentRun
    \/ CompletionReturns
    \/ CompletionRaises
    \/ ToolCallFinishes
    \/ GatherReturns

SpecAgent == Init /\ [][NextAgent]_vars

\* ------------------------------------------------------------------------
\* The same loop on the runs that are checked for what they report: one
\* prompt, tools that return, final answers with and without NO_REPORT
\* ------------------------------------------------------------------------
ReportRun == AgentRunWith({"p1"})

ReportCompletionReturns == CompletionReturnsWith(ReportContents, ReportCallSeqs)

ReportToolCallFinishes == ToolCallFinishesWith({"return"})

NextReport ==
    \/ ReportRun
    \/ ReportCompletionReturns
    \/ CompletionRaises
    \/ ReportToolCallFinishes
    \/ GatherReturns

SpecReport == Init /\ [][NextReport]_vars

\* ------------------------------------------------------------------------
\* One Orchestrator._handle_tool_call, with the clock of asyncio.wait_for
\* ------------------------------------------------------------------------
\* _handle_tool_call, lines 109-140: an unknown name returns at once; the
\* arguments are parsed and validated; only then is the handler awaited
HandleToolCallStart ==
    /\ hpc \in {"idle", "done"}
    /\ \E name \in ToolNames, arguments \in Arguments :
        LET tc == [id |-> "call_1_1", name |-> name, arguments |-> arguments]
        IN  /\ tool_call' = tc
            /\ IF Dispatched(handlers, tc)
               THEN /\ hpc' = "waiting"
                    /\ invocations' = 1
                    /\ tool_result' = NoOutcome
               ELSE /\ hpc' = "done"
                    /\ invocations' = 0
                    /\ tool_result' = HandleToolCall(handlers, tc, "none")
    /\ elapsed' = 0
    /\ behaviour' = "none"
    /\ wrapped_result' = NoOutcome
    /\ UNCHANGED <<schedVars, agentVars, registryVars, editVars, moreVars>>

\* a second passes while wait_for waits for the tool function
WaitForTick ==
    /\ hpc = "waiting"
    /\ ~WaitForExpired(elapsed)
    /\ elapsed' = elapsed + 1
    /\ UNCHANGED <<tool_call, hpc, invocations, behaviour, wrapped_result,
                   tool_result, schedVars, agentVars, registryVars, editVars, moreVars>>

\* the tool function ends before the timeout: wrapped_tool, lines 34-45, and
\* _handle_tool_call, lines 140-162
HandlerEnds ==
    /\ hpc = "waiting"
    /\ ~WaitForExpired(elapsed)
    /\ \E b \in HandlerEndings :
        /\ behaviour' = b
        /\ wrapped_result' = WrappedTool(tool_call, b)
        /\ tool_result' = HandleToolCall(handlers, tool_call, b)
    /\ hpc' = "done"
    /\ UNCHANGED <<tool_call, elapsed, invocations, schedVars, agentVars,
                   registryVars, editVars, moreVars>>

\* the timeout of wait_for expires first: wrapped_tool, lines 39-43
WaitForExpires ==
    /\ hpc = "waiting"
    /\ WaitForExpired(elapsed)
    /\ behaviour' = "timeout"
    /\ wrapped_result' = WrappedTool(tool_call, "timeout")
    /\ tool_result' = HandleToolCall(handlers, tool_call, "timeout")
    /\ hpc' = "done"
    /\ UNCHANGED <<tool_call, elapsed, invocations, schedVars, agentVars,
                   registryVars, editVars, moreVars>>

NextCall ==
    \/ HandleToolCallStart
    \/ WaitForTick
    \/ HandlerEnds
    \/ WaitForExpires

SpecCall == Init /\ [][NextCall]_vars

\* ------------------------------------------------------------------------
\* ToolRegistry: construction, register and clone
\* ------------------------------------------------------------------------
\* r = ToolRegistry(tool_timeout=t)
Construct ==
    /\ \E t \in {ToolTimeout, TestTimeout} : registry' = NewRegistry(t)
    /\ dicts' = [dicts EXCEPT ![1] = EmptyDict, ![2] = EmptyDict]
    /\ last_op' = "construct"
    /\ UNCHANGED <<copy, schedVars, agentVars, callVars, editVars, moreVars>>

\* ToolRegistry.register on the dicts of the registry `reg`
Register(reg, name, f) ==
    dicts' = [dicts EXCEPT ![reg.schemas][name] = SchemaEntry(name, f),
                           ![reg.handlers][name] = HandlerEntry(name, f)]

\* r.register(f, schema, name=name)
RegisterOnOriginal ==
    /\ \E name \in RegistryNames, f \in ToolFunctions : Register(registry, name, f)
    /\ last_op' = "register_r"
    /\ UNCHANGED <<registry, copy, schedVars, agentVars, callVars, editVars, moreVars>>

\* c.register(f, schema, name=name)
RegisterOnClone ==
    /\ copy # NoRegistry
    /\ \E name \in RegistryNames, f \in ToolFunctions : Register(copy, name, f)
    /\ last_op' = "register_c"
    /\ UNCHANGED <<registry, copy, schedVars, agentVars, callVars, editVars, moreVars>>

\* c = r.clone(), lines 78-83
Clone ==
    /\ copy' = CloneRefs(registry)
    /\ dicts' = [d \in DictIds |->
                   IF d = copy'.schemas THEN dicts[registry.schemas]
                   ELSE IF d = copy'.handlers THEN dicts[registry.handlers]
                   ELSE dicts[d]]
    /\ last_op' = "clone"
    /\ UNCHANGED <<registry, schedVars, agentVars, callVars, editVars, moreVars>>

NextRegistry ==
    \/ Construct
    \/ RegisterOnOriginal
    \/ RegisterOnClone
    \/ Clone

SpecRegistry == Init /\ [][NextRegistry]_vars

\* ------------------------------------------------------------------------
\* Runtime.write_file and Runtime.edit_file, Host and Container variant
\* ------------------------------------------------------------------------
\* write_file(filename, content) stores the content
WriteFile ==
    /\ \E rt \in Runtimes, content \in Files :
        /\ runtime' = rt
        /\ file' = content
    /\ epc' = "written"
    /\ file_before' = Missing
    /\ edits' = <<>>
    /\ edit_result' = "none"
    /\ UNCHANGED <<schedVars, agentVars, callVars, registryVars, moreVars>>

\* the file is removed from the workspace
RemoveFile ==
    /\ epc = "written"
    /\ file' = Missing
    /\ UNCHANGED <<epc, runtime, file_before, edits, edit_result, schedVars,
                   agentVars, callVars, registryVars, moreVars>>

\* edit_file(filename, edits): a file that cannot be read is an error; the
\* edits are applied to the content in memory; only when all of them matched
\* is the result handed to write_file
EditFile ==
    /\ epc = "written"
    /\ \E es \in EditLists :
        LET r == ApplyEdits(file, es)
        IN  /\ edits' = es
            /\ IF file = Missing
               THEN /\ edit_result' = "error"
                    /\ UNCHANGED file
               ELSE /\ edit_result' = r.status
                    /\ file' = IF r.status = "success" THEN r.content ELSE file
    /\ file_before' = file
    /\ epc' = "edited"
    /\ UNCHANGED <<runtime, schedVars, agentVars, callVars, registryVars, moreVars>>

NextEdit ==
    \/ WriteFile
    \/ RemoveFile
    \/ EditFile

SpecEdit == Init /\ [][NextEdit]_vars

\* ------------------------------------------------------------------------
\* The handlers of the Scheduler and the history of the agent they run
\* (agent/main.py _process_heartbeat, _process_human_input;
\*  agent/core/agent.py Agent.run)
\* ------------------------------------------------------------------------
\* the texts that come with a human message: an ordinary one and the
\* control commands
HandlerTexts == {"hello", "/new", "/heartbeat"}
HandlerChats == {"c1", "c2"}
HandlerInputs ==
    {[type |-> "human", chat_id |-> c, message_id |-> "m1", content |-> t] :
        c \in HandlerChats, t \in HandlerTexts}

\* an entry of Agent.messages
HistoryMessage(role, content) == [role |-> role, content |-> content]

\* main.py 101-108: the user prompt of a heartbeat
HeartbeatPrompt == "SYSTEM EVENT: AUTONOMOUS WAKE-UP"
\* main.py 129-148: the user prompt of a human message quotes event.content
HumanInputPrompt(e) == "USER MESSAGE: " \o e.content
\* main.py: ENFORCE_STYLER_PROMPT
EnforceStylerPrompt == "ENFORCE_STYLER_PROMPT"

\* Agent.run, line 305: the user prompt is appended to self.messages, and
\* line 308 hands self.messages to llm_client.chat
RunAppends(msgs, user_prompt) ==
    Append(msgs, HistoryMessage("user", user_prompt))

\* Agent.run, lines 316-317: whatever the chat call gave is appended
RunEnds(msgs, answer) == Append(msgs, HistoryMessage("assistant", answer))

\* _process_heartbeat up to its first await: the prompt is built and set,
\* agent.run is called with the heartbeat user prompt
HeartbeatHandler ==
    /\ h_pc = "idle"
    /\ h_count < MaxEvents
    /\ h_event' = HeartbeatEvent
    /\ h_count' = h_count + 1
    /\ h_runs' = 1
    /\ agent_messages' = RunAppends(agent_messages, HeartbeatPrompt)
    /\ chat_messages' = agent_messages'
    /\ h_log' = <<>>
    /\ h_pc' = "chat"
    /\ UNCHANGED handlerFrame

\* _process_human_input up to its first await: event.content is not looked
\* at, it is quoted in the user prompt agent.run is called with
HumanInputHandler ==
    /\ h_pc = "idle"
    /\ h_count < MaxEvents
    /\ \E e \in HandlerInputs :
        /\ h_event' = e
        /\ agent_messages' = RunAppends(agent_messages, HumanInputPrompt(e))
    /\ h_count' = h_count + 1
    /\ h_runs' = 1
    /\ chat_messages' = agent_messages'
    /\ h_log' = <<>>
    /\ h_pc' = "chat"
    /\ UNCHANGED handlerFrame

\* the chat call returns a response with message_styler_enforced set: run
\* appends it, the handler logs it (main.py 119-122, 158-161) and returns
StyledAnswer ==
    /\ h_pc = "chat"
    /\ agent_messages' = RunEnds(agent_messages, "styled answer")
    /\ h_pc' = "idle"
    /\ UNCHANGED <<h_event, h_count, h_runs, chat_messages, h_log,
                   handlerFrame>>

\* the response is not styled (main.py 114-118, 153-157): it is sent, and
\* agent.run is called again with ENFORCE_STYLER_PROMPT
UnstyledAnswer ==
    /\ h_pc = "chat"
    /\ h_runs < MaxRuns
    /\ h_log' = Append(h_log, [op |-> "send_message", text |-> "answer"])
    /\ agent_messages' = RunAppends(RunEnds(agent_messages, "answer"),
                                    EnforceStylerPrompt)
    /\ chat_messages' = agent_messages'
    /\ h_runs' = h_runs + 1
    /\ UNCHANGED <<h_event, h_pc, h_count, handlerFrame>>

\* the chat call raises (core/agent.py 312-317): run appends "Error: ..." as
\* the assistant message; the handler finds no response to read and is left
\* by an exception
ChatFails ==
    /\ h_pc = "chat"
    /\ agent_messages' = RunEnds(agent_messages, "Error: e")
    /\ h_pc' = "idle"
    /\ UNCHANGED <<h_event, h_count, h_runs, chat_messages, h_log,
                   handlerFrame>>

NextHandler ==
    \/ HeartbeatHandler
    \/ HumanInputHandler
    \/ StyledAnswer
    \/ UnstyledAnswer
    \/ ChatFails

SpecHandler == Init /\ [][NextHandler]_vars

\* ------------------------------------------------------------------------
\* The HTTP endpoints (agent/api/server.py create_api)
\* ------------------------------------------------------------------------
\* a field the JSON body does not have
Absent == "<absent>"
SessionIds == {"s1", "s2"}
MessageIds == {"id1", "id2"}
Messages == {"", "hi"}

\* the JSON bodies a client posts
Bodies ==
    [session_id : SessionIds \cup {Absent},
     message_id : MessageIds \cup {Absent},
     message : Messages \cup {Absent}]

\* HumanInputRequest (pydantic): the three fields are required, every
\* string is accepted, the empty one too
Validates_NonEmpty(body) ==
    /\ body.session_id # Absent
    /\ body.message_id # Absent
    /\ body.message \notin {Absent, ""}

Validates(body) ==
    /\ body.session_id # Absent
    /\ body.message_id # Absent
    /\ body.message # Absent

\* the event submit_input builds from the request, lines 94-98
QueuedEvent(body) ==
    [type |-> "human", session_id |-> body.session_id,
     message_id |-> body.message_id, message |-> body.message]

\* POST /api/bot: a body that does not validate is answered 422 by FastAPI
\* before submit_input runs; else submit_input puts one event and answers
\* HumanInputResponse()
PostBot ==
    \E body \in Bodies :
        /\ Len(api_queue) < MaxQueue
        /\ http_request' = [method |-> "POST", path |-> "/api/bot",
                            json |-> body]
        /\ api_queue_before' = api_queue
        /\ IF Validates(body)
           THEN /\ api_queue' = Append(api_queue, QueuedEvent(body))
                /\ http_response' = [status_code |-> 200, json |-> "queued"]
           ELSE /\ api_queue' = api_queue
                /\ http_response' = [status_code |-> 422, json |-> "detail"]
        /\ UNCHANGED serverFrame

\* GET /api/health: health_check answers HealthResponse()
GetHealth ==
    /\ http_request' = [method |-> "GET", path |-> "/api/health"]
    /\ api_queue_before' = api_queue
    /\ http_response' = [status_code |-> 200, json |-> "ok"]
    /\ UNCHANGED <<api_queue, serverFrame>>

\* the consumer of the queue (Scheduler.run) takes the oldest event
QueueGet ==
    /\ api_queue # <<>>
    /\ api_queue' = Tail(api_queue)
    /\ http_request' = [method |-> "none"]
    /\ api_queue_before' = api_queue'
    /\ UNCHANGED <<http_response, serverFrame>>

NextServer ==
    \/ PostBot
    \/ GetHealth
    \/ QueueGet

SpecServer == Init /\ [][NextServer]_vars

\* ------------------------------------------------------------------------
\* Agent.compress (agent/llm/agent.py 363-411)
\* ------------------------------------------------------------------------
\* texts are sequences of characters
Whitespace == {" ", "\n"}
SummaryChars == Whitespace \cup {"s"}
RECURSIVE TextsUpTo(_, _)
TextsUpTo(chars, n) ==
    IF n = 0 THEN {<<>>}
    ELSE LET shorter == TextsUpTo(chars, n - 1)
         IN shorter \cup {Append(t, c) : t \in shorter, c \in chars}

\* what the LLM answers: message.content is None or a text
SummaryContents == {None} \cup TextsUpTo(SummaryChars, MaxLen)

\* the messages of a conversation: content None (tool calls only), empty, or
\* a text
HistoryMessages ==
    {[role |-> "user", content |-> <<"h", "i">>],
     [role |-> "assistant", content |-> <<"o", "k">>],
     [role |-> "assistant", content |-> None],
     [role |-> "tool", content |-> <<>>]}
RECURSIVE ListsUpTo(_, _)
ListsUpTo(items, n) ==
    IF n = 0 THEN {<<>>}
    ELSE LET shorter == ListsUpTo(items, n - 1)
         IN shorter \cup {Append(l, x) : l \in shorter, x \in items}
Histories == ListsUpTo(HistoryMessages, MaxHistory)

\* str.lstrip() and str.rstrip()
RECURSIVE LStrip(_)
LStrip(t) ==
    IF t # <<>> /\ Head(t) \in Whitespace THEN LStrip(Tail(t)) ELSE t
RECURSIVE RStrip(_)
RStrip(t) ==
    IF t # <<>> /\ t[Len(t)] \in Whitespace
    THEN RStrip(SubSeq(t, 1, Len(t) - 1)) ELSE t

\* line 411: summary.strip()
StripText_Leading(t) == LStrip(t)

StripText(t) == RStrip(LStrip(t))

\* line 409: response.choices[0].message.content or ""
OrEmpty(content) == IF content = None \/ content = <<>> THEN <<>> ELSE content

\* lines 387-394: the transcript holds one part for every message whose
\* content is neither None nor empty
RECURSIVE Transcript(_)
Transcript(msgs) ==
    IF msgs = <<>> THEN <<>>
    ELSE IF OrEmpty(Head(msgs).content) = <<>> THEN Transcript(Tail(msgs))
    ELSE <<[role |-> Head(msgs).role, content |-> Head(msgs).content]>>
            \o Transcript(Tail(msgs))

\* lines 375-407: an empty list is answered at once; else the transcript is
\* built and one do_completion is awaited
Compress ==
    /\ cpc # "completion"
    /\ \E msgs \in Histories :
        /\ compress_messages' = msgs
        /\ IF msgs = <<>>
           THEN /\ cpc' = "returned"
                /\ completions' = <<>>
                /\ compress_result' = <<>>
           ELSE /\ cpc' = "completion"
                /\ completions' = <<Transcript(msgs)>>
                /\ compress_result' = None
    /\ summary_content' = None
    /\ UNCHANGED compressFrame

\* lines 409-411: the completion returns; compress returns its stripped
\* content
SummaryReturns ==
    /\ cpc = "completion"
    /\ \E content \in SummaryContents :
        /\ summary_content' = content
        /\ compress_result' = StripText(OrEmpty(content))
    /\ cpc' = "returned"
    /\ UNCHANGED <<compress_messages, completions, compressFrame>>

\* the completion raises: compress has no handler, the exception leaves it
SummaryRaises ==
    /\ cpc = "completion"
    /\ cpc' = "raised"
    /\ UNCHANGED <<compress_messages, completions, summary_content,
                   compress_result, compressFrame>>

NextCompress ==
    \/ Compress
    \/ SummaryReturns
    \/ SummaryRaises

SpecCompress == Init /\ [][NextCompress]_vars

\* ------------------------------------------------------------------------
\* Runtime.execute (agent/core/runtime.py)
\* ------------------------------------------------------------------------
\* ContainerRuntime.execute, lines 126-129: the length beyond which an
\* output is cut
OutputLimit == 5000
StdoutMarker == "(truncated: output is too long)"
StderrMarker == "(truncated: error is too long)"

\* a text made of the first n units of what the process wrote, followed by
\* `marker`; the decoded output of a process that wrote n units is Output(n)
Prefix(n, marker) == [units |-> n, marker |-> marker]
Output(n) == Prefix(n, "")
OutputLengths == {0} \cup ((OutputLimit - 1)..(OutputLimit + MaxExtra))
ReturnCodes == {0, 1, 2}

\* what the subprocess of an execute call does: create_subprocess_* raises
\* (spawns = FALSE), or the process ends with a return code and two outputs
Processes ==
    [spawns : BOOLEAN, returncode : ReturnCodes,
     stdout : OutputLengths, stderr : OutputLengths]

\* lines 126-129: text[:5000] + marker when len(text) > 5000
Truncate(text, marker) ==
    IF text.units > OutputLimit
    THEN Prefix(OutputLimit, marker)
    ELSE text

\* ContainerRuntime.execute, lines 121-147
ContainerExecute(p) ==
    IF ~p.spawns
    THEN Ok([status |-> "error", message |-> "cannot spawn"])
    ELSE LET stdout == Truncate(Output(p.stdout), StdoutMarker)
             stderr == Truncate(Output(p.stderr), StderrMarker)
         IN IF p.returncode # 0
            THEN Ok([status |-> "error", returncode |-> p.returncode,
                     stdout |-> stdout, stderr |-> stderr])
            ELSE Ok([status |-> "success", stdout |-> stdout,
                     stderr |-> stderr])

\* HostRuntime.execute, lines 265-286
HostExecute(p) ==
    IF ~p.spawns
    THEN Ok([status |-> "error", message |-> "cannot spawn"])
    ELSE Ok([status |-> "success", stdout |-> Output(p.stdout),
             stderr |-> Output(p.stderr), returncode |-> p.returncode])

\* runtime.execute(command)
Execute ==
    \E v \in Runtimes, p \in Processes :
        /\ rt_variant' = v
        /\ rt_op' = "execute"
        /\ rt_process' = p
        /\ rt_result' = IF v = "container" THEN ContainerExecute(p)
                        ELSE HostExecute(p)
        /\ UNCHANGED runtimeFrame

\* ---- read_file, write_file, edit_file: how they end ----
\* what one subprocess of the Container variant does: it exits with 0, it
\* exits with another code, or create_subprocess_exec raises
ContainerOutcomes == {"ok", "nonzero", "spawn_fails"}
\* what the file operations of the Host variant do: they work, the path does
\* not exist, or they raise (OSError, UnicodeDecodeError)
HostOutcomes == {"ok", "missing", "raises"}

\* the outcomes of the steps of one call, in the order in which the call
\* takes them, and whether every search block of an edit_file call matches
\* exactly once
FileCalls(outcomes) ==
    [steps : [1..3 -> outcomes], edits_match : BOOLEAN]

FileSuccess == Ok([status |-> "success", message |-> "done"])
FileError(text) == Ok([status |-> "error", message |-> text])

\* ContainerRuntime.read_file, lines 162-199: two _exec_in_container calls,
\* none of them inside a try
ContainerReadFile(c) ==
    CASE c.steps[1] = "spawn_fails" -> Raised("OSError")
      [] c.steps[1] = "nonzero" -> FileError("File not found")
      [] c.steps[2] = "spawn_fails" -> Raised("OSError")
      [] c.steps[2] = "nonzero" -> FileError("stderr")
      [] OTHER -> FileSuccess

\* ContainerRuntime.write_file from its step k on, lines 201-221: mkdir -p
\* (its result is dropped), then base64 -d > file; no try
ContainerWriteFile(c, k) ==
    CASE c.steps[k] = "spawn_fails" -> Raised("OSError")
      [] c.steps[k + 1] = "spawn_fails" -> Raised("OSError")
      [] c.steps[k + 1] = "nonzero" -> FileError("stderr")
      [] OTHER -> FileSuccess

\* ContainerRuntime.read_file_internal, lines 149-160: every failure is
\* logged and raised again
ContainerReadFileInternal(c) ==
    CASE c.steps[1] = "spawn_fails" -> Raised("OSError")
      [] c.steps[1] = "nonzero" -> Raised("Exception")
      [] OTHER -> Ok("bytes")

\* ContainerRuntime.edit_file, lines 223-257: read_file_internal is awaited
\* outside any try, then the edits, then write_file
ContainerEditFile(c) ==
    IF ContainerReadFileInternal(c).raised THEN ContainerReadFileInternal(c)
    ELSE IF ~c.edits_match THEN FileError("no unique match")
    ELSE ContainerWriteFile(c, 2)

\* HostRuntime.read_file, lines 298-328: the whole body is in a try
HostReadFile(c) ==
    CASE c.steps[1] = "missing" -> FileError("File not found")
      [] c.steps[1] = "raises" -> FileError("str(e)")
      [] OTHER -> FileSuccess

\* HostRuntime.write_file from its step k on, lines 330-343
HostWriteFile(c, k) ==
    IF c.steps[k] = "raises" THEN FileError("str(e)") ELSE FileSuccess

\* HostRuntime.edit_file, lines 345-385
HostEditFile(c) ==
    CASE c.steps[1] = "missing" -> FileError("File not found")
      [] c.steps[1] = "raises" -> FileError("str(e)")
      [] ~c.edits_match -> FileError("no unique match")
      [] OTHER -> HostWriteFile(c, 2)

\* runtime.read_file(filename)
CallReadFile ==
    \/ \E c \in FileCalls(ContainerOutcomes) :
        /\ rt_variant' = "container"
        /\ rt_process' = c
        /\ rt_result' = ContainerReadFile(c)
        /\ rt_op' = "read_file"
        /\ UNCHANGED runtimeFrame
    \/ \E c \in FileCalls(HostOutcomes) :
        /\ rt_variant' = "host"
        /\ rt_process' = c
        /\ rt_result' = HostReadFile(c)
        /\ rt_op' = "read_file"
        /\ UNCHANGED runtimeFrame

\* runtime.write_file(filename, content)
CallWriteFile ==
    \/ \E c \in FileCalls(ContainerOutcomes) :
        /\ rt_variant' = "container"
        /\ rt_process' = c
        /\ rt_result' = ContainerWriteFile(c, 1)
        /\ rt_op' = "write_file"
        /\ UNCHANGED runtimeFrame
    \/ \E c \in FileCalls(HostOutcomes) :
        /\ rt_variant' = "host"
        /\ rt_process' = c
        /\ rt_result' = HostWriteFile(c, 1)
        /\ rt_op' = "write_file"
        /\ UNCHANGED runtimeFrame

\* runtime.edit_file(filename, edits)
CallEditFile ==
    \/ \E c \in FileCalls(ContainerOutcomes) :
        /\ rt_variant' = "container"
        /\ rt_process' = c
        /\ rt_result' = ContainerEditFile(c)
        /\ rt_op' = "edit_file"
        /\ UNCHANGED runtimeFrame
    \/ \E c \in FileCalls(HostOutcomes) :
        /\ rt_variant' = "host"
        /\ rt_process' = c
        /\ rt_result' = HostEditFile(c)
        /\ rt_op' = "edit_file"
        /\ UNCHANGED runtimeFrame

NextRuntime ==
    \/ Execute
    \/ CallReadFile
    \/ CallWriteFile
    \/ CallEditFile

SpecRuntime == Init /\ [][NextRuntime]_vars

\* ------------------------------------------------------------------------
\* _do_completion: retries of a completion
\* (agent/llm/openai.py OpenAIProvider, agent/llm_openai.py LLMClient)
\* ------------------------------------------------------------------------
LLMClients == {"OpenAIProvider", "LLMClient"}
\* how an attempt fails: InternalServerError (5xx), RateLimitError (429),
\* BadRequestError (400), AuthenticationError (401)
CompletionErrors ==
    {"InternalServerError", "RateLimitError", "BadRequestError",
     "AuthenticationError"}

\* OpenAIProvider: retry_if_not_exception_type(BadRequestError);
\* LLMClient: except (InternalServerError, RateLimitError)
Retries_Everything(client, e) == TRUE

Retries(client, e) ==
    IF client = "OpenAIProvider" THEN e # "BadRequestError"
    ELSE e \in {"InternalServerError", "RateLimitError"}

RECURSIVE Pow2(_)
Pow2(n) == IF n = 0 THEN 1 ELSE 2 * Pow2(n - 1)

\* wait_exponential(multiplier=2, min=5, max=300) after the attempt number n:
\* max(max(0, min), min(multiplier * 2 ** (n - 1), max))
WaitMultiplier == 2
WaitMin == 5
WaitMax == 300
WaitExponential(n) ==
    Max(Max(0, WaitMin), Min(WaitMultiplier * Pow2(n - 1), WaitMax))

\* LLMClient: retry_timer = 5, doubled after every sleep
RetryTimer == 5
RetryTimerAfter(n) == RetryTimer * Pow2(n - 1)

\* the sleep that follows the failed attempt number n
WaitAfter(client, n) ==
    IF client = "OpenAIProvider" THEN WaitExponential(n)
    ELSE RetryTimerAfter(n)

\* _do_completion is called: the first completions.create is awaited
DoCompletion ==
    /\ rpc \in {"idle", "returned", "raised"}
    /\ \E client \in LLMClients : llm_client' = client
    /\ rpc' = "attempt"
    /\ attempts' = 1
    /\ failures' = 0
    /\ last_error' = "none"
    /\ waits' = <<>>
    /\ UNCHANGED retryFrame

\* completions.create returns: _do_completion returns the response
AttemptSucceeds ==
    /\ rpc = "attempt"
    /\ rpc' = "returned"
    /\ UNCHANGED <<llm_client, attempts, failures, last_error, waits,
                   retryFrame>>

\* completions.create raises: the exception is either slept on, with the
\* wait of this attempt, or it leaves _do_completion
AttemptFails ==
    /\ rpc = "attempt"
    /\ \E e \in CompletionErrors :
        /\ last_error' = e
        /\ IF Retries(llm_client, e)
           THEN /\ attempts < MaxAttempts
                /\ rpc' = "sleeping"
                /\ waits' = Append(waits, WaitAfter(llm_client, attempts))
           ELSE /\ rpc' = "raised"
                /\ waits' = waits
    /\ failures' = failures + 1
    /\ UNCHANGED <<llm_client, attempts, retryFrame>>

\* the sleep is over: completions.create is awaited again
NextAttempt ==
    /\ rpc = "sleeping"
    /\ rpc' = "attempt"
    /\ attempts' = attempts + 1
    /\ UNCHANGED <<llm_client, failures, last_error, waits, retryFrame>>

NextRetry ==
    \/ DoCompletion
    \/ AttemptSucceeds
    \/ AttemptFails
    \/ NextAttempt

SpecRetry == Init /\ [][NextRetry]_vars

\* ------------------------------------------------------------------------
\* write_file and read_file_internal (agent/core/runtime.py)
\* ------------------------------------------------------------------------
\* the characters of a content, and str.encode("utf-8")
ContentChars == {"a", "e'"}
Contents8 == TextsUpTo(ContentChars, MaxLen)
Utf8Char(c) == IF c = "a" THEN <<97>> ELSE <<195, 169>>
RECURSIVE Utf8(_)
Utf8(x) == IF x = <<>> THEN <<>> ELSE Utf8Char(Head(x)) \o Utf8(Tail(x))

\* base64: the digits are 0..63, Pad is "=", Newline ends a line of the
\* output of the base64 command
Pad == 64
Newline == 65

\* base64.b64encode / the base64 command: three bytes give four digits
RECURSIVE B64Encode(_)
B64Encode(b) ==
    IF b = <<>> THEN <<>>
    ELSE IF Len(b) = 1
    THEN <<b[1] \div 4, (b[1] % 4) * 16, Pad, Pad>>
    ELSE IF Len(b) = 2
    THEN <<b[1] \div 4, (b[1] % 4) * 16 + (b[2] \div 16),
           (b[2] % 16) * 4, Pad>>
    ELSE <<b[1] \div 4, (b[1] % 4) * 16 + (b[2] \div 16),
           (b[2] % 16) * 4 + (b[3] \div 64), b[3] % 64>>
            \o B64Encode(SubSeq(b, 4, Len(b)))

\* base64.b64decode(s) / base64 -d: characters outside the alphabet are
\* dropped, then four digits give three bytes
RECURSIVE Alphabet(_)
Alphabet(d) ==
    IF d = <<>> THEN <<>>
    ELSE IF Head(d) <= Pad THEN <<Head(d)>> \o Alphabet(Tail(d))
    ELSE Alphabet(Tail(d))
RECURSIVE B64Groups(_)
B64Groups(d) ==
    IF Len(d) < 4 THEN <<>>
    ELSE LET b1 == d[1] * 4 + (d[2] \div 16)
             b2 == (d[2] % 16) * 16 + (d[3] \div 4)
             b3 == (d[3] % 4) * 64 + d[4]
         IN IF d[3] = Pad THEN <<b1>>
            ELSE IF d[4] = Pad THEN <<b1, b2>>
            ELSE <<b1, b2, b3>> \o B64Groups(SubSeq(d, 5, Len(d)))
B64Decode(d) == B64Groups(Alphabet(d))

\* what the path holds after the bytes were written to it: open(path, "w")
\* and the shell's `>` both start from an empty file
Stored_Appended(old, bytes) == [exists |-> TRUE, bytes |-> old.bytes \o bytes]

Stored(old, bytes) == [exists |-> TRUE, bytes |-> bytes]

\* what a Runtime method hands back: a status dict, bytes, or an exception
FileResult(raised, status, bytes) ==
    [raised |-> raised, status |-> status, bytes |-> bytes]

\* HostRuntime.write_file, lines 334-338: the text is encoded and written
HostWritten(x) == Utf8(x)
\* ContainerRuntime.write_file, lines 210-215: the encoded text goes through
\* base64 to the stdin of `base64 -d > file`
ContainerWritten(x) == B64Decode(B64Encode(Utf8(x)))

\* runtime.write_file(p, x) succeeds: the parent directory is made if it is
\* not there, and the path holds the content
WriteFileSucceeds ==
    /\ fs_writes < MaxWrites
    /\ \E v \in Runtimes, x \in Contents8 :
        /\ fs_runtime \in {"none", v}
        /\ fs_runtime' = v
        /\ fs_file' = Stored(fs_file, IF v = "host" THEN HostWritten(x)
                                      ELSE ContainerWritten(x))
        /\ fs_written' = x
    /\ fs_dir' = TRUE
    /\ fs_op' = "write_file"
    /\ fs_result' = FileResult(FALSE, "success", <<>>)
    /\ fs_writes' = fs_writes + 1
    /\ UNCHANGED fileFrame

\* runtime.write_file(p, x) cannot make the directory or open the path:
\* status error (Host), or a non-zero exit of the shell (Container)
WriteFileFails ==
    /\ fs_runtime # "none"
    /\ fs_op' = "write_file"
    /\ fs_result' = FileResult(FALSE, "error", <<>>)
    /\ UNCHANGED <<fs_runtime, fs_dir, fs_file, fs_written, fs_writes,
                   fileFrame>>

\* runtime.read_file_internal(p): Host reads the bytes (lines 288-296);
\* Container decodes the output of `base64 file` (lines 149-160); both
\* raise when the path is not there
ReadFileInternal ==
    /\ fs_runtime # "none"
    /\ fs_op' = "read_file_internal"
    /\ fs_result' =
          IF ~fs_file.exists THEN FileResult(TRUE, "raised", <<>>)
          ELSE IF fs_runtime = "host"
          THEN FileResult(FALSE, "bytes", fs_file.bytes)
          ELSE FileResult(FALSE, "bytes",
                          B64Decode(B64Encode(fs_file.bytes) \o <<Newline>>))
    /\ UNCHANGED <<fs_runtime, fs_dir, fs_file, fs_written, fs_writes,
                   fileFrame>>

NextFile ==
    \/ WriteFileSucceeds
    \/ WriteFileFails
    \/ ReadFileInternal

SpecFile == Init /\ [][NextFile]_vars

\* ------------------------------------------------------------------------
\* Properties of the Scheduler
\* ------------------------------------------------------------------------
ErrorNotice == [op |-> "notify", text |-> "Error during event processing: "]

\* C1: at most one event is being processed, the one Scheduler.run took last,
\* and whenever Scheduler.run is at any point other than its await of the
\* handler (in particular when it takes the next event) no handler is running
C1_OneEventAtATime ==
    /\ Cardinality(active) <= 1
    /\ pc # "await" => active = {}
    /\ \A r \in active : r.ev = event

\* an event is in its second completion, after a round of tool calls, while
\* the producers and the timer have queued further events behind it
C1_Witness ==
    /\ \E r \in active : r.iter >= 2 /\ r.st = "llm"
    /\ Len(queue) >= 2
    /\ \E i \in DOMAIN queue : queue[i].type = "human"

\* C2: no handler run (hence no LLM completion and no tool call) exists for a
\* HumanInputEvent whose (chat_id, message_id) was already processed
C2_NoRunForProcessedId ==
    \A r \in active : ~r.dup

\* C3: whenever Scheduler.run is done with a taken event (after the handler
\* returned or raised, or after the container check skipped the event) a
\* heartbeat-arm task is pending and every arm-task that was pending when the
\* event was taken is cancelled
C3_RearmedAfterEveryEvent ==
    [][ (pc \in {"check", "rearm"} /\ pc' = "take") =>
            /\ heartbeat_task' # 0
            /\ tasks'[heartbeat_task'].st = "sleeping"
            /\ \A t \in armed_at_take : tasks'[t].st = "cancelled" ]_vars

\* C4: an arm-task that was pending when the event was taken never puts its
\* HeartbeatEvent, and a timer puts a HeartbeatEvent only while no event is
\* being handled and wake_interval_seconds after the last handling ended
C4_NoHeartbeatFromOldTimer ==
    [][ \A t \in TaskIds :
            (tasks[t].st = "sleeping" /\ tasks'[t].st = "fired") =>
                /\ t \notin armed_at_take
                /\ pc = "take"
                /\ since_end >= WakeTicks ]_vars

\* C5: an exception of the handler leaves Scheduler.run in its loop, at the
\* re-arm after the try statement; the re-arm creates a fresh heartbeat-arm
\* task with the full interval ahead and goes back to take the next event
C5_LoopSurvivesException ==
    [][ /\ (pc = "await" /\ outcome = "none" /\ outcome' = "error") =>
              pc' = "rearm"
        /\ (pc = "rearm" /\ outcome = "error" /\ pc' # pc) =>
              /\ pc' = "take"
              /\ heartbeat_task' # 0
              /\ tasks'[heartbeat_task'] =
                    [st |-> "sleeping", remaining |-> WakeTicks]
        /\ (outcome = "error" /\ pc = "take" /\ pc' # pc) =>
              /\ queue # <<>>
              /\ pc' = "check"
              /\ event' = Head(queue) ]_vars

\* the event after a failed one has been taken and is about to be handled
C5_Witness ==
    /\ outcome = "error"
    /\ pc = "check"
    /\ event.type = "human"
    /\ heartbeat_task # 0 /\ tasks[heartbeat_task].st = "sleeping"

\* C6: when the handling of an event has ended with an exception and the next
\* event is to be taken, messaging.notify has been called exactly once with
\* the text 'Error during event processing: ' + error
C6_ErrorIsNotified ==
    (pc = "take" /\ outcome = "error") =>
        Cardinality({i \in DOMAIN messaging_log :
                        messaging_log[i] = ErrorNotice}) = 1

\* ------------------------------------------------------------------------
\* Properties of Agent.run and Orchestrator.process
\* ------------------------------------------------------------------------
LastIteration == iterations[Len(iterations)]

SystemCount(msgs) == Cardinality({i \in DOMAIN msgs : msgs[i].role = "system"})

\* C7: process returns an empty list exactly for an assistant message without
\* tool calls and with finish_reason "stop"; Agent.run returns at the first
\* iteration whose reply is empty, with the LLM response of that iteration,
\* and at no iteration whose reply is non-empty
C7_EmptyReplyEndsLoop ==
    /\ \A k \in DOMAIN iterations :
        /\ (iterations[k].reply = <<>>) <=>
              (/\ iterations[k].message.tool_calls = <<>>
               /\ iterations[k].finish_reason = "stop")
        /\ k < Len(iterations) => iterations[k].reply # <<>>
    /\ (apc = "returned") <=>
          (iterations # <<>> /\ LastIteration.reply = <<>>)
    /\ apc = "returned" =>
          result = [message |-> LastIteration.message,
                    finish_reason |-> LastIteration.finish_reason]

\* a run returned at its second iteration; the first one had tool calls and
\* finish_reason "stop", and did not end the loop
C7_Witness ==
    /\ apc = "returned"
    /\ Len(iterations) = 2
    /\ iterations[1].message.tool_calls # <<>>
    /\ iterations[1].finish_reason = "stop"
    /\ iterations[2].reply = <<>>

\* C8: the message list of every completion of a run holds exactly one
\* system-role message; it comes first and carries the prompt given to this
\* run, whatever iteration it is and whatever prompt the run before used
C8_OneSystemMessage ==
    turn >= 1 =>
        /\ sent # <<>>
        /\ sent[1] = SystemMessage(run_prompt)
        /\ SystemCount(sent) = 1

\* the second completion of a run that follows a run with another prompt
C8_Witness ==
    /\ turn = 2
    /\ prev_prompt \notin {"", run_prompt}
    /\ Len(sent) >= 3
    /\ sent[1].content = run_prompt

\* the result the i-th call of an iteration produced itself
OwnResult(it, i) == it.slots[i].value.value

\* C9: for an assistant message with n tool calls process returns n tool
\* messages; the i-th one carries the id of the i-th call and the result of
\* that very call, in whatever order the handlers finished and whichever failed
C9_RepliesMatchCalls ==
    \A k \in DOMAIN iterations :
        LET it == iterations[k]
            tcs == it.message.tool_calls
        IN  tcs # <<>> =>
              /\ Len(it.reply) = Len(tcs)
              /\ \A i \in DOMAIN tcs :
                  /\ it.reply[i].role = "tool"
                  /\ it.reply[i].tool_call_id = tcs[i].id
                  /\ OwnResult(it, i).tool_id = tcs[i].id
                  /\ it.reply[i].content = Json(OwnResult(it, i).result)
                  /\ it.slots[i].behaviour = "return" =>
                        it.reply[i].content = Json(HandlerResult(tcs[i]))
                  /\ it.slots[i].behaviour # "return" =>
                        it.reply[i].content.json.status = "error"

\* two calls, the second finished first, the first one's handler raised
C9_Witness ==
    /\ apc = "completion"
    /\ iterations # <<>>
    /\ finish_order = <<2, 1>>
    /\ Len(LastIteration.slots) = 2
    /\ LastIteration.slots[1].behaviour = "raise"
    /\ LastIteration.slots[2].behaviour = "return"
    /\ LastIteration.reply[2].content = Json(HandlerResult(LastIteration.message.tool_calls[2]))

\* The containment of C10 for the exceptions `except Exception` of the wrapper
\* takes: when a tool handler raises in a human-input run, process does not
\* raise; the call's tool message has status "error" and holds the text of the
\* exception, the other calls of the turn deliver their own results, the loop
\* issues another completion that sees the tool message, and a next turn
\* without tool calls and with finish_reason "stop" makes exactly one
\* send_message(chat_id, content) and ends the run
C10_ToolErrorContained ==
    orchestrator.kind = "human" =>
        /\ error # "process"
        /\ \A k \in DOMAIN iterations :
            LET it == iterations[k]
                tcs == it.message.tool_calls
            IN  \A i \in DOMAIN it.slots :
                  it.slots[i].behaviour = "raise" =>
                    /\ it.reply[i].role = "tool"
                    /\ it.reply[i].tool_call_id = tcs[i].id
                    /\ it.reply[i].content.json.status = "error"
                    /\ Contains(it.reply[i].content.json.message, ErrorText(tcs[i]))
                    /\ \A j \in DOMAIN it.slots :
                          it.slots[j].behaviour = "return" =>
                              it.reply[j] = ToolMessage(tcs[j].id,
                                                Json(HandlerResult(tcs[j])))
                    /\ \E m \in DOMAIN messages : messages[m] = it.reply[i]
                    /\ k = Len(iterations) =>
                          /\ apc \in {"completion", "gather", "raised"}
                          /\ apc = "raised" => error = "do_completion"
                    /\ turn > k => \E m \in DOMAIN sent : sent[m] = it.reply[i]
                    /\ (/\ k < Len(iterations)
                        /\ iterations[k + 1].message.tool_calls = <<>>
                        /\ iterations[k + 1].finish_reason = "stop") =>
                          /\ iterations[k + 1].sends =
                                <<SendMessage(orchestrator.chat_id,
                                      Strip(iterations[k + 1].message.content))>>
                          /\ k + 1 = Len(iterations)
                          /\ apc = "returned"

\* a human-input run that returned: in its first turn one handler raised and a
\* sibling returned, the second turn was the final answer
C10_Witness ==
    /\ orchestrator.kind = "human"
    /\ apc = "returned"
    /\ Len(iterations) = 2
    /\ \E i, j \in DOMAIN iterations[1].slots :
          /\ iterations[1].slots[i].behaviour = "raise"
          /\ iterations[1].slots[j].behaviour = "return"
    /\ iterations[2].message.content = " ok "
    /\ sends = <<SendMessage(orchestrator.chat_id, "ok")>>

\* ------------------------------------------------------------------------
\* Properties of _handle_tool_call and of the registry wrapper
\* ------------------------------------------------------------------------
\* the tool message Orchestrator.process builds from the result of the call
CallReply == ToolReplies(<<tool_result.value>>)[1]

\* C11: a call of an unregistered tool, or with arguments that are no JSON or
\* fail the schema, gives a result with status "error" and a message, invokes
\* no tool function and raises nothing
C11_BadCallIsErrorResult ==
    (/\ hpc = "done"
     /\ \/ tool_call.name \notin handlers
        \/ tool_call.arguments \in {"bad_json", "bad_schema"}) =>
        /\ ~tool_result.raised
        /\ tool_result.value.tool_id = tool_call.id
        /\ tool_result.value.result.status = "error"
        /\ tool_result.value.result.message # <<>>
        /\ invocations = 0
        /\ wrapped_result = NoOutcome

\* a registered tool was called with arguments that fail its schema
C11_Witness ==
    /\ hpc = "done"
    /\ tool_call.name \in handlers
    /\ tool_call.arguments = "bad_schema"
    /\ tool_result.value.result.status = "error"

\* C12: a tool function still running when the timeout of the registry
\* expires is not waited for any longer: the wrapped handler returns the
\* "timed out" error at that instant; a function that returns earlier has
\* its own result handed on unchanged
C12_TimeoutCutsHandler ==
    [][/\ (hpc = "waiting" /\ elapsed >= ToolTimeout) =>
            /\ hpc' = "done"
            /\ elapsed' = elapsed
            /\ ~wrapped_result'.raised
            /\ wrapped_result'.value.status = "error"
            /\ Contains(wrapped_result'.value.message, " timed out after ")
       /\ (hpc = "waiting" /\ hpc' = "done" /\ behaviour' = "return") =>
            /\ elapsed' < ToolTimeout
            /\ wrapped_result' = Ok(HandlerResult(tool_call))]_vars

\* the wrapped handler returned the timeout error when the timeout expired
C12_Witness ==
    /\ hpc = "done"
    /\ behaviour = "timeout"
    /\ elapsed = ToolTimeout
    /\ Contains(wrapped_result.value.message, " timed out after ")

\* C13: whatever the tool function does, the wrapped handler returns a value
\* and does not raise; when the function raises, the value is the error
\* result whose message is the string of the exception
C13_WrapperReturnsExceptionString ==
    (hpc = "done" /\ invocations = 1) =>
        /\ ~wrapped_result.raised
        /\ behaviour \in {"raise", "raise_timeout"} =>
              wrapped_result.value = ErrorResult(<<ErrorText(tool_call)>>)

\* C10: when a tool function raises, the tool message of the call has status
\* "error" and holds the text of the exception
C10_ErrorMessageHasExceptionText ==
    (hpc = "done" /\ behaviour \in {"raise", "raise_timeout"}) =>
        /\ ~tool_result.raised
        /\ CallReply.role = "tool"
        /\ CallReply.tool_call_id = tool_call.id
        /\ CallReply.content.json.status = "error"
        /\ Contains(CallReply.content.json.message, ErrorText(tool_call))

\* ------------------------------------------------------------------------
\* Properties of the orchestrators: registry and messaging
\* ------------------------------------------------------------------------
\* C14: building a HumanInputOrchestrator leaves the registry built at startup
\* as it was: a HeartbeatOrchestrator built afterwards offers neither
\* add_reaction nor send_image
C14_InstanceToolsDoNotLeak ==
    orchestrator.kind = "heartbeat" => handlers \cap InstanceTools = {}

\* the messaging calls a run makes for the iterations `its`, in their order
RECURSIVE SendsOf(_)
SendsOf(its) ==
    IF its = <<>> THEN <<>> ELSE its[1].sends \o SendsOf(Tail(its))

\* the turn whose tool calls are being gathered has spoken already
PendingSends ==
    IF apc = "gather" THEN BeforeToolUse(orchestrator, response.message) ELSE <<>>

FinalContent == Strip(LastIteration.message.content)

\* C16: a heartbeat run calls notify once, with the stripped final content,
\* exactly when that content is not empty and does not end with NO_REPORT;
\* otherwise it calls neither notify nor send_message, and a turn with tool
\* calls never notifies
C16_HeartbeatNotifiesOnce ==
    orchestrator.kind = "heartbeat" =>
        /\ sends = IF /\ apc = "returned"
                      /\ FinalContent # ""
                      /\ ~EndsWithNoReport(FinalContent)
                   THEN <<Notify(FinalContent)>>
                   ELSE <<>>
        /\ \A k \in DOMAIN iterations :
              iterations[k].message.tool_calls # <<>> => iterations[k].sends = <<>>
        /\ PendingSends = <<>>

\* a heartbeat run with a tool-call turn that carried text has ended with an
\* answer to report, and has reported it
C16_Witness ==
    /\ orchestrator.kind = "heartbeat"
    /\ apc = "returned"
    /\ Len(iterations) = 2
    /\ iterations[1].message.tool_calls # <<>>
    /\ iterations[1].message.content = "idle NO_REPORT"
    /\ iterations[2].message.content = " ok "
    /\ sends = <<Notify("ok")>>

\* a heartbeat run has ended with NO_REPORT behind white space, and was silent
C16_WitnessQuiet ==
    /\ orchestrator.kind = "heartbeat"
    /\ apc = "returned"
    /\ LastIteration.message.content = " NO_REPORT "
    /\ sends = <<>>

\* what a human-input run has to send for the iteration `it`
ExpectedOf(it) ==
    IF it.message.tool_calls # <<>>
    THEN IF it.message.content # ""
         THEN <<SendMessage(orchestrator.chat_id, it.message.content)>>
         ELSE <<>>
    ELSE IF it.finish_reason = "stop"
         THEN <<SendMessage(orchestrator.chat_id, Strip(it.message.content))>>
         ELSE <<>>

RECURSIVE ExpectedSends(_)
ExpectedSends(its) ==
    IF its = <<>> THEN <<>> ELSE ExpectedOf(its[1]) \o ExpectedSends(Tail(its))

\* C17: in a human-input run every send_message goes to the chat_id of the
\* event; each tool-call turn with non-empty content sends that content once,
\* before its tools are dispatched; the final response is sent once, after all
\* interim messages; notify is never called
C17_HumanRunMessages ==
    orchestrator.kind = "human" =>
        /\ \A i \in DOMAIN sends :
              sends[i].op = "send_message" /\ sends[i].to = orchestrator.chat_id
        /\ sends = ExpectedSends(iterations) \o
                   (IF apc = "gather" /\ response.message.content # ""
                    THEN <<SendMessage(orchestrator.chat_id, response.message.content)>>
                    ELSE <<>>)
        /\ apc = "returned" =>
              /\ sends[Len(sends)] =
                    SendMessage(orchestrator.chat_id, FinalContent)
              /\ \A k \in 1..(Len(iterations) - 1) :
                    iterations[k].message.tool_calls = <<>> =>
                        iterations[k].sends = <<>>

\* a human-input run: interim text of a tool-call turn, then the final answer
C17_Witness ==
    /\ orchestrator.kind = "human"
    /\ apc = "returned"
    /\ Len(iterations) = 2
    /\ iterations[1].message.tool_calls # <<>>
    /\ sends = <<SendMessage("c1", " ok "), SendMessage("c1", "NO_REPORT")>>

\* C18: for a message without tool calls and with a finish_reason other than
\* "stop", process returns the single user message "continue" and makes no
\* messaging call, and the loop goes on to another completion
C18_ContinueNudge ==
    \A k \in DOMAIN iterations :
        (/\ iterations[k].message.tool_calls = <<>>
         /\ iterations[k].finish_reason # "stop") =>
            /\ iterations[k].reply = <<UserMessage("continue")>>
            /\ iterations[k].sends = <<>>
            /\ \E m \in DOMAIN messages :
                  /\ m > 1
                  /\ messages[m] = UserMessage("continue")
                  /\ messages[m - 1] = iterations[k].message
            /\ k = Len(iterations) =>
                  /\ apc \in {"completion", "gather", "raised"}
                  /\ apc = "raised" => error = "do_completion"
                  /\ apc = "completion" =>
                        messages[Len(messages)] = UserMessage("continue")
            /\ turn > k =>
                  \E m \in DOMAIN sent : sent[m] = UserMessage("continue")

\* a run whose first answer was cut off ("length"), was nudged, and then ended
C18_Witness ==
    /\ apc = "returned"
    /\ Len(iterations) = 2
    /\ iterations[1].message.tool_calls = <<>>
    /\ iterations[1].finish_reason = "length"
    /\ iterations[1].message.content = " ok "
    /\ sent[Len(sent)] = UserMessage("continue")

\* ------------------------------------------------------------------------
\* Properties of ToolRegistry.clone
\* ------------------------------------------------------------------------
\* C15: after c = r.clone(), a register on c leaves the schema and handler
\* maps of r as they were and a register on r leaves those of c as they were;
\* right after the clone c has the names, schemas, handlers and timeout of r
C15_CloneIsIndependent ==
    [][/\ last_op' = "register_c" =>
            /\ SchemasOf(registry)' = SchemasOf(registry)
            /\ HandlersOf(registry)' = HandlersOf(registry)
       /\ (last_op' = "register_r" /\ copy # NoRegistry) =>
            /\ SchemasOf(copy)' = SchemasOf(copy)
            /\ HandlersOf(copy)' = HandlersOf(copy)
       /\ last_op' = "clone" =>
            /\ NamesOf(copy)' = NamesOf(registry)
            /\ SchemasOf(copy)' = SchemasOf(registry)
            /\ HandlersOf(copy)' = HandlersOf(registry)
            /\ copy'.tool_timeout = registry.tool_timeout
            /\ SchemasOf(registry)' = SchemasOf(registry)
            /\ HandlersOf(registry)' = HandlersOf(registry)]_vars

\* after the clone a tool was registered on c only, and a tool of r was
\* replaced on r only
C15_Witness ==
    /\ copy # NoRegistry
    /\ copy.tool_timeout = TestTimeout
    /\ last_op = "register_c"
    /\ SchemasOf(registry)["t1"] = SchemaEntry("t1", "f2")
    /\ SchemasOf(copy)["t1"] = SchemaEntry("t1", "f1")
    /\ NamesOf(registry) = {"t1"}
    /\ NamesOf(copy) = {"t1", "t2"}

\* ------------------------------------------------------------------------
\* Properties of Runtime.edit_file
\* ------------------------------------------------------------------------
\* some edit of the list has a search block that stands at no position, or at
\* more than one, in the content the edits before it produced
RECURSIVE SomeEditNotUnique(_, _)
SomeEditNotUnique(content, es) ==
    IF es = <<>> THEN FALSE
    ELSE IF Cardinality(Occurrences(content, es[1].search)) # 1 THEN TRUE
    ELSE SomeEditNotUnique(Replace1(content, es[1].search, es[1].replace),
                           Tail(es))

\* C19: when the search block of some edit occurs zero times or more than
\* once in the content produced by the edits before it, edit_file returns
\* status "error" and the stored file is what it was before the call, for the
\* Host and for the Container variant
C19_FailedEditKeepsFile ==
    (/\ epc = "edited"
     /\ file_before # Missing
     /\ SomeEditNotUnique(file_before, edits)) =>
        /\ edit_result = "error"
        /\ file = file_before

\* ------------------------------------------------------------------------
\* Control commands
\* ------------------------------------------------------------------------
\* C20: a HumanInputEvent whose text is exactly "/compress" starts no agent
\* run: it is answered without an LLM call, or by one agent.compress
C20_CompressStartsNoRun ==
    \A r \in active : r.ev.type = "human" => r.ev.content # "/compress"

\* C21: a HumanInputEvent whose text is "/new" or "/heartbeat" starts no LLM
\* run ("/new" replaces the Conversation of its chat by an empty one,
\* "/heartbeat" puts one HeartbeatEvent on the queue)
C21_ControlCommandsStartNoRun ==
    (h_event.type = "human" /\ h_event.content \in {"/new", "/heartbeat"})
        => h_pc # "chat"

SameChat(e1, e2) ==
    /\ e1.type = "human"
    /\ e2.type = "human"
    /\ e1.chat_id = e2.chat_id

\* the runs of active' that were not in flight before the step
StartedRuns == {r \in active' : \A q \in active : q.id # r.id}

\* C23: two HumanInputEvents of the same chat_id are processed in the order
\* in which they stand in the queue, and the run of the first is over before
\* the user message of the second is handed to the agent: a put leaves the
\* queued events in place, the event taken has no event of its chat before
\* it in the queue, and a run starts only for the event in hand and only
\* when no run is in flight
C23_SameChatInQueueOrder ==
    [][/\ Len(queue') > Len(queue) =>
            SubSeq(queue', 1, Len(queue)) = queue
       /\ (pc = "take" /\ pc' = "check") =>
            \E k \in DOMAIN queue :
                /\ event' = queue[k]
                /\ queue' = Without(queue, k)
                /\ \A i \in 1..(k - 1) : ~SameChat(queue[i], queue[k])
       /\ \A r \in StartedRuns :
                /\ active = {}
                /\ r.ev = event
                /\ event' = event]_vars

\* the first of two messages of chat c1 is being run, the second waits
C23_Witness ==
    /\ Len(queue) >= 1
    /\ queue[1] = HumanInputEvent("c1", "m2")
    /\ \E r \in active : r.ev = HumanInputEvent("c1", "m1")

\* ------------------------------------------------------------------------
\* The HTTP endpoints
\* ------------------------------------------------------------------------
\* a body with the three fields of the request schema, each a string
WellFormed(body) ==
    \A f \in {"session_id", "message_id", "message"} : body[f] # Absent

\* C24: a POST /api/bot with a valid body (an empty message included) puts
\* exactly one HumanInputEvent with the session_id, message_id and message
\* of the request on the queue and is answered {status: "queued"}; a body
\* that does not validate puts nothing and is answered 422; GET /api/health
\* leaves the queue as it is
C24_PostQueuesOneEvent ==
    /\ (http_request.method = "POST" /\ WellFormed(http_request.json)) =>
            /\ Len(api_queue) = Len(api_queue_before) + 1
            /\ SubSeq(api_queue, 1, Len(api_queue_before)) = api_queue_before
            /\ LET e == api_queue[Len(api_queue)]
               IN /\ e.type = "human"
                  /\ e.session_id = http_request.json.session_id
                  /\ e.message_id = http_request.json.message_id
                  /\ e.message = http_request.json.message
            /\ http_response = [status_code |-> 200, json |-> "queued"]
    /\ (http_request.method = "POST" /\ ~WellFormed(http_request.json)) =>
            /\ api_queue = api_queue_before
            /\ http_response.status_code = 422
    /\ http_request.method = "GET" => api_queue = api_queue_before

\* a valid request with an empty message was queued behind another event
C24_Witness ==
    /\ http_request.method = "POST"
    /\ http_request.json.message = ""
    /\ http_request.json.session_id = "s2"
    /\ Len(api_queue) = 2
    /\ api_queue[2].message = ""
    /\ api_queue[2].session_id = "s2"

\* ------------------------------------------------------------------------
\* Agent.compress
\* ------------------------------------------------------------------------
\* r is t without the whitespace at its two ends
IsStripped(r, t) ==
    /\ r = <<>> \/ (r[1] \notin Whitespace /\ r[Len(r)] \notin Whitespace)
    /\ \E i \in 0..Len(t) :
        /\ i + Len(r) <= Len(t)
        /\ SubSeq(t, i + 1, i + Len(r)) = r
        /\ \A k \in (1..i) \cup ((i + Len(r) + 1)..Len(t)) :
                t[k] \in Whitespace

\* C25: Agent.compress of an empty list returns "" and issues no completion;
\* of a non-empty list it issues exactly one completion and returns the
\* content of its answer, stripped
C25_CompressOneCompletion ==
    /\ compress_messages = <<>> =>
            /\ completions = <<>>
            /\ cpc = "returned" => compress_result = <<>>
    /\ (compress_messages # <<>> /\ cpc # "idle") =>
            /\ Len(completions) = 1
            /\ cpc = "returned" =>
                  IsStripped(compress_result,
                             IF summary_content = None THEN <<>>
                             ELSE summary_content)

\* a summary with whitespace at both ends came back for a non-empty list
C25_Witness ==
    /\ cpc = "returned"
    /\ Len(compress_messages) = 2
    /\ summary_content = <<" ", "s", "\n">>
    /\ compress_result = <<"s">>

\* ------------------------------------------------------------------------
\* Runtime.execute
\* ------------------------------------------------------------------------
\* an execute call whose subprocess ran to its end
Executed == rt_op = "execute" /\ rt_process.spawns

\* C26: for the Host and for the Container variant, execute returns status
\* "error" together with returncode, stdout and stderr when the command
\* ends with a non-zero exit code, and status "success" only when it is zero
C26_NonZeroExitIsError ==
    Executed =>
        LET r == rt_result.value
        IN /\ ~rt_result.raised
           /\ rt_process.returncode # 0 =>
                /\ r.status = "error"
                /\ {"returncode", "stdout", "stderr"} \subseteq DOMAIN r
                /\ r.returncode = rt_process.returncode
           /\ r.status = "success" => rt_process.returncode = 0

\* the text expected for an output of n units
Cut(n, marker) ==
    IF n <= OutputLimit THEN [units |-> n, marker |-> ""]
    ELSE [units |-> OutputLimit, marker |-> marker]

\* C30: for both variants, the stdout and the stderr that execute returns
\* are the output itself when it has at most 5000 units, and its first 5000
\* units followed by the truncation marker when it is longer
C30_OutputCutAtLimit ==
    Executed =>
        LET r == rt_result.value
        IN /\ ~rt_result.raised
           /\ r.stdout = Cut(rt_process.stdout, StdoutMarker)
           /\ r.stderr = Cut(rt_process.stderr, StderrMarker)

\* the first subprocess or file operation of the call fails
FirstStepFails ==
    \/ rt_op = "execute" /\ ~rt_process.spawns
    \/ /\ rt_op \in {"read_file", "edit_file"}
       /\ rt_process.steps[1] # "ok"
    \/ /\ rt_op = "write_file"
       /\ rt_process.steps[1] \in {"spawn_fails", "raises"}

\* C27: for both variants, execute, read_file, write_file and edit_file
\* never raise, and return {status: "error", message} when the underlying
\* subprocess or file operation fails (a file that cannot be read, a
\* subprocess that cannot be spawned)
C27_FailuresAreReturned ==
    rt_op # "none" =>
        /\ ~rt_result.raised
        /\ FirstStepFails =>
              /\ rt_result.value.status = "error"
              /\ "message" \in DOMAIN rt_result.value

RECURSIVE BytesOf(_)
BytesOf(x) ==
    IF x = <<>> THEN <<>>
    ELSE (IF Head(x) = "a" THEN <<97>> ELSE <<195, 169>>) \o BytesOf(Tail(x))

\* C28: after a successful write_file(p, x), read_file_internal(p) returns
\* exactly the bytes of x, for every content x and also when the parent
\* directory of p did not exist before; after a later successful
\* write_file(p, y) it returns exactly the bytes of y
C28_ReadReturnsWhatWasWritten ==
    (fs_op = "read_file_internal" /\ fs_writes > 0) =>
        /\ ~fs_result.raised
        /\ fs_result.bytes = BytesOf(fs_written)

\* a second, shorter content was written by the Container variant and read
C28_Witness ==
    /\ fs_op = "read_file_internal"
    /\ fs_runtime = "container"
    /\ fs_writes = 2
    /\ fs_written = <<"e'">>
    /\ fs_result.bytes = <<195, 169>>

\* ------------------------------------------------------------------------
\* What the human receives
\* ------------------------------------------------------------------------
\* the handler of a human message returned: the run ended with a styled
\* answer, which is the last entry of Agent.messages
HumanInputDone ==
    /\ h_pc = "idle"
    /\ h_event.type = "human"
    /\ agent_messages # <<>>
    /\ agent_messages[Len(agent_messages)].content = "styled answer"

\* C31: when the handling of a HumanInputEvent ends without error, the
\* response that ended the run was sent through messaging.send_message: it
\* is the last message sent for the event
C31_FinalResponseIsSent ==
    HumanInputDone =>
        /\ h_log # <<>>
        /\ h_log[Len(h_log)].op = "send_message"
        /\ h_log[Len(h_log)].text = "styled answer"

\* ------------------------------------------------------------------------
\* Runtime.read_file: the window of lines (agent/core/runtime.py)
\* ------------------------------------------------------------------------
MaxLines == 3

\* the files read: line i of a file of n lines is written i
FileLines(n) == [i \in 1..n |-> i]
ReadFiles == [exists : {TRUE}, lines : 0..MaxLines]
                \cup {[exists |-> FALSE, lines |-> 0]}
ReadCalls == [start_line : (-1)..(MaxLines + 1), limit : (-1)..MaxLines]

ReadError == [status |-> "error", content |-> <<>>, total_lines |-> 0,
              start_line |-> 0, returned_lines |-> 0]
ReadSuccess(content, total, start) ==
    [status |-> "success", content |-> content, total_lines |-> total,
     start_line |-> start, returned_lines |-> Len(content)]

\* lines[a:b] of Python for a >= 0: a negative b counts from the end, and
\* both ends are clipped to the list
Slice(lines, a, b) ==
    LET stop == IF b < 0 THEN Max(Len(lines) + b, 0) ELSE Min(b, Len(lines))
    IN  IF a >= stop THEN <<>> ELSE SubSeq(lines, a + 1, stop)

\* HostRuntime.read_file, lines 298-328
HostWindow(f, start_line, limit) ==
    IF ~f.exists THEN ReadError
    ELSE LET lines == FileLines(f.lines)
             start == Max(1, start_line)
             end == start + limit - 1
         IN  ReadSuccess(Slice(lines, start - 1, end), Len(lines), start)

\* what `sed -n 'start,end p'` prints and its exit status: a negative end
\* is not an address, an end that is not after start selects the one line
\* start
SedPrint(lines, start, end) ==
    IF end < 0 THEN [returncode |-> 1, stdout |-> <<>>]
    ELSE IF start > Len(lines) THEN [returncode |-> 0, stdout |-> <<>>]
    ELSE [returncode |-> 0,
          stdout |-> SubSeq(lines, start, Min(Max(end, start), Len(lines)))]

\* ContainerRuntime.read_file, lines 162-199: `sed -n '$='` fails on a
\* missing file and prints nothing for an empty one
ContainerWindow(f, start_line, limit) ==
    IF ~f.exists THEN ReadError
    ELSE LET lines == FileLines(f.lines)
             start == Max(1, start_line)
             end == start + limit - 1
             sed == SedPrint(lines, start, end)
         IN  IF sed.returncode # 0 THEN ReadError
             ELSE ReadSuccess(sed.stdout, Len(lines), start)

\* toolbox.read_file(filename, start_line, limit) on either variant
ReadFile ==
    /\ \E v \in {"host", "container"}, f \in ReadFiles, c \in ReadCalls :
        /\ rd_runtime' = v
        /\ rd_file' = f
        /\ rd_call' = c
        /\ rd_result' = IF v = "host"
                        THEN HostWindow(f, c.start_line, c.limit)
                        ELSE ContainerWindow(f, c.start_line, c.limit)
    /\ UNCHANGED readFrame

NextRead ==
    \/ ReadFile

SpecRead == Init /\ [][NextRead]_vars

\* the lines first .. last of a file, none when last < first
LinesFromTo(first, last) ==
    IF last < first THEN <<>> ELSE [i \in 1..(last - first + 1) |-> first + i - 1]

\* C32: a successful read_file(path, s, l) on a file of n lines returns
\* start_line = max(1, s), total_lines = n, as content the lines
\* start_line .. min(n, start_line + l - 1) in order, and returned_lines is
\* the number of those lines and is never more than l
C32_ReadFileWindow ==
    rd_result.status = "success" =>
        LET s == rd_call.start_line
            l == rd_call.limit
            n == rd_file.lines
            first == IF s > 1 THEN s ELSE 1
            last == IF n < first + l - 1 THEN n ELSE first + l - 1
        IN  /\ rd_result.start_line = first
            /\ rd_result.total_lines = n
            /\ rd_result.content = LinesFromTo(first, last)
            /\ rd_result.returned_lines = Len(rd_result.content)
            /\ rd_result.returned_lines <= l

\* ------------------------------------------------------------------------
\* ContainerCommandExecutor.edit_file: exact and whitespace-tolerant matching
\* (agent/tools/command_executor.py)
\* ------------------------------------------------------------------------
\* the files edited and the blocks of the edits, as texts over a, b, c,
\* the blank and the newline
ExecFiles == {<<"a", "\n", "b", "\n">>, <<"a", " ", "\n", "b", "\n">>,
              <<"b", "\n", "a", "\n">>, <<"a", "\n">>}
ExecSearches == {<<"a">>, <<"b">>, <<"a", " ">>, <<"b", " ">>}
ExecReplaces == {<<"c">>, <<"c", "\n">>}
ExecEdits == [search : ExecSearches, replace : ExecReplaces]
ExecEditLists == UNION {[1..k -> ExecEdits] : k \in 1..MaxEdits}

\* content.splitlines(keepends=True)
RECURSIVE SplitLinesKeep(_)
SplitLinesKeep(c) ==
    IF c = <<>> THEN <<>>
    ELSE IF \E i \in 1..Len(c) : c[i] = "\n"
    THEN LET i == CHOOSE j \in 1..Len(c) :
                      c[j] = "\n" /\ \A k \in 1..(j - 1) : c[k] # "\n"
         IN  <<SubSeq(c, 1, i)>> \o SplitLinesKeep(SubSeq(c, i + 1, Len(c)))
    ELSE <<c>>

\* search_block.splitlines()
SplitLines(c) ==
    LET ls == SplitLinesKeep(c)
    IN  [i \in 1..Len(ls) |->
            IF ls[i][Len(ls[i])] = "\n" THEN SubSeq(ls[i], 1, Len(ls[i]) - 1)
            ELSE ls[i]]

\* "".join(lines)
RECURSIVE Join(_)
Join(ls) == IF ls = <<>> THEN <<>> ELSE Head(ls) \o Join(Tail(ls))

\* lines 243-257: the indices i at which the window lines[i : i + len(
\* search_lines)] equals search_lines up to trailing whitespace
FlexibleMatches(ls, search_lines) ==
    {i \in 0..(Len(ls) - Len(search_lines)) :
        \A k \in 1..Len(search_lines) :
            RStrip(ls[i + k]) = RStrip(search_lines[k])}

\* lines 259-268: the window is replaced by the one line replace_block,
\* with a newline added when it does not end with one
ReplaceLines(ls, i, n, r) ==
    SubSeq(ls, 1, i)
        \o <<IF r # <<>> /\ r[Len(r)] = "\n" THEN r ELSE r \o <<"\n">>>>
        \o SubSeq(ls, i + n + 1, Len(ls))

\* one turn of the for loop, lines 223-275, on the content and the lines
\* it finds in its variables
EditStep(content, ls, e) ==
    IF In(e.search, content)
    THEN IF Count(content, e.search) > 1
         THEN [status |-> "error", content |-> content]
         ELSE [status |-> "success",
               content |-> Replace1(content, e.search, e.replace)]
    ELSE LET found == FlexibleMatches(ls, SplitLines(e.search))
         IN  IF Cardinality(found) = 1
             THEN [status |-> "success",
                   content |-> Join(ReplaceLines(ls, CHOOSE i \in found : TRUE,
                                        Len(SplitLines(e.search)), e.replace))]
             ELSE [status |-> "error", content |-> content]

\* the for loop: `lines` is computed once, at line 221, from the content
\* read from the file, and is assigned nowhere in the loop
RECURSIVE ExecutorApply(_, _, _)
ExecutorApply(content, ls, es) ==
    IF es = <<>> THEN [status |-> "success", content |-> content]
    ELSE LET r == EditStep(content, ls, Head(es))
         IN  IF r.status = "error" THEN r
             ELSE ExecutorApply(r.content, ls, Tail(es))

\* ContainerCommandExecutor.edit_file(filepath, edits), lines 210-278, on a
\* file that can be read and written
ExecutorEditFile ==
    /\ \E f \in ExecFiles, es \in ExecEditLists :
        LET r == ExecutorApply(f, SplitLinesKeep(f), es)
        IN  /\ ex_file' = f
            /\ ex_edits' = es
            /\ ex_result' = r.status
            /\ ex_written' = IF r.status = "success" THEN r.content ELSE <<>>
    /\ UNCHANGED execFrame

NextExec ==
    \/ ExecutorEditFile

SpecExec == Init /\ [][NextExec]_vars

\* each edit applied to the output of the one before it: the lines a
\* whitespace-tolerant match looks at are those of that output
RECURSIVE InOrder(_, _)
InOrder(content, es) ==
    IF es = <<>> THEN [status |-> "success", content |-> content]
    ELSE LET r == EditStep(content, SplitLinesKeep(content), Head(es))
         IN  IF r.status = "error" THEN r ELSE InOrder(r.content, Tail(es))

\* C33: when edit_file succeeds with edits e1..en, the content it writes is
\* the result of applying each edit in order to the output of the one
\* before it
C33_EditsApplyInOrder ==
    ex_result = "success" =>
        /\ InOrder(ex_file, ex_edits).status = "success"
        /\ ex_written = InOrder(ex_file, ex_edits).content

\* ------------------------------------------------------------------------
\* Orchestrator._handle_tool_call: the arguments of a call for a model
\* named deepseek-ai/... (agent/llm/agent.py)
\* ------------------------------------------------------------------------
\* a JSON value: its type and how it is written; NoArgument is a key the
\* arguments do not have
NoArgument == [type |-> "absent", text |-> ""]
JsonValue(type, text) == [type |-> type, text |-> text]
Models == {"deepseek-ai/DeepSeek-V3", "gpt-4o"}
ArgNames == {"filename", "start_line", "limit"}

\* the parameters schema toolbox.py registers for read_file:
\* filename is a string and required, start_line and limit are integers
ReadFileSchema == [filename |-> "string", start_line |-> "integer",
                   limit |-> "integer"]
Required == {"filename"}

FilenameValues == {JsonValue("string", "a.txt"), JsonValue("string", "123"),
                   JsonValue("string", "\"a.txt\""), JsonValue("integer", "7")}
IntegerValues == {NoArgument, JsonValue("integer", "5"), JsonValue("string", "5"),
                  JsonValue("string", "x"), JsonValue("boolean", "true")}
ArgumentDicts ==
    {[filename |-> f, start_line |-> s, limit |-> l] :
        f \in FilenameValues, s \in IntegerValues, l \in IntegerValues}

\* json.loads(arg_value): a value that is not a string raises TypeError; a
\* string is decoded when it is a JSON text and raises JSONDecodeError
\* when it is not
JsonLoads(v) ==
    IF v.type # "string" THEN [raised |-> "TypeError", value |-> v]
    ELSE IF v.text \in {"123", "5"}
    THEN [raised |-> "no", value |-> JsonValue("integer", v.text)]
    ELSE IF v.text = "\"a.txt\""
    THEN [raised |-> "no", value |-> JsonValue("string", "a.txt")]
    ELSE [raised |-> "JSONDecodeError", value |-> v]

\* lines 129-135: every value of args goes through json.loads; only
\* JSONDecodeError is caught inside the loop
DecodeArguments(args) ==
    IF \E n \in ArgNames : args[n] # NoArgument
                             /\ JsonLoads(args[n]).raised = "TypeError"
    THEN [raised |-> TRUE, args |-> args]
    ELSE [raised |-> FALSE,
          args |-> [n \in ArgNames |->
                      IF args[n] = NoArgument THEN NoArgument
                      ELSE JsonLoads(args[n]).value]]

\* jsonschema.validate(instance=args, schema=...): the required keys are
\* there and every value has the type of its property (a boolean is no
\* integer)
SchemaValidates(args) ==
    /\ (\A r \in Required : args[r] # NoArgument)
    /\ \A n \in ArgNames : args[n] # NoArgument => args[n].type = ReadFileSchema[n]

NotCalled == [called |-> FALSE, args |-> [n \in ArgNames |-> NoArgument]]

\* _handle_tool_call for read_file, lines 126-155, with a handler that
\* returns status success
HandleArguments ==
    /\ \E m \in Models, args \in ArgumentDicts :
        LET deepseek == m = "deepseek-ai/DeepSeek-V3"
            decoded == IF deepseek THEN DecodeArguments(args)
                       ELSE [raised |-> FALSE, args |-> args]
        IN  /\ da_model' = m
            /\ da_arguments' = args
            /\ IF decoded.raised \/ ~SchemaValidates(decoded.args)
               THEN /\ da_result' = "error"
                    /\ da_called' = NotCalled
               ELSE /\ da_result' = "success"
                    /\ da_called' = [called |-> TRUE, args |-> decoded.args]
    /\ UNCHANGED argFrame

NextArg ==
    \/ HandleArguments

SpecArg == Init /\ [][NextArg]_vars

\* C34: for a model named deepseek-ai/..., a call whose arguments satisfy
\* the schema of the tool reaches the handler and gives no error result;
\* values that are not strings and strings that are no JSON text reach it
\* as they were
C34_DeepseekCallsAreDispatched ==
    (da_model = "deepseek-ai/DeepSeek-V3"
        /\ (\A r \in Required : da_arguments[r].type # "absent")
        /\ \A n \in ArgNames :
              da_arguments[n].type \in {"absent", ReadFileSchema[n]})
    => /\ da_result = "success"
       /\ da_called.called
       /\ \A n \in ArgNames :
             (da_arguments[n].type # "string"
                 \/ da_arguments[n].text \in {"a.txt", "x"})
             => da_called.args[n] = da_arguments[n]

\* ------------------------------------------------------------------------
\* chat(messages, max_iterations): the tool loop of the three clients
\* (agent/llm.py LLMClient, agent/llm/base.py LLMBase,
\*  agent/llm/openai.py OpenAIProvider)
\* ------------------------------------------------------------------------
MaxIterations == 2
MaxCompletions == 5
ChatClasses == {"LLMClient", "LLMBase", "OpenAIProvider"}

\* LLMClient.chat is `for _ in range(max_iterations)`, the two others are
\* `while True` with a counter
ForLoop(c) == c = "LLMClient"

\* chat is called; range(0) is empty and LLMClient raises TimeoutError
\* (llm.py line 163)
ChatCalled ==
    /\ ch_pc = "idle"
    /\ \E c \in ChatClasses, m \in 0..MaxIterations :
        /\ ch_class' = c
        /\ ch_max' = m
        /\ ch_pc' = IF ForLoop(c) /\ m = 0 THEN "raised" ELSE "loop"
    /\ ch_iteration' = IF ch_pc' = "loop" THEN 1 ELSE 0
    /\ ch_completions' = 0
    /\ ch_handled' = 0
    /\ UNCHANGED chatFrame

\* where the loop goes after an iteration that ended with `continue`:
\* the for loop is exhausted after max_iterations iterations and
\* TimeoutError is raised; the while loops always go on
AfterContinue ==
    /\ ch_pc' = IF ForLoop(ch_class) /\ ch_iteration = ch_max
                THEN "raised" ELSE "loop"
    /\ ch_iteration' = IF ch_pc' = "loop" THEN ch_iteration + 1
                       ELSE ch_iteration

\* the completion of this iteration comes back with tool calls (and, for
\* LLMClient, no content): LLMClient invokes the handlers; LLMBase and
\* OpenAIProvider invoke them unless current_iteration > max_iterations,
\* when every call is answered "Error: max tool call iterations reached."
\* (base.py lines 95-103, openai.py lines 96-101); then `continue`
CompletionRequestsTools ==
    /\ ch_pc = "loop"
    /\ ch_completions < MaxCompletions
    /\ ch_completions' = ch_completions + 1
    /\ ch_handled' = IF ForLoop(ch_class) \/ ch_iteration <= ch_max
                     THEN ch_handled + 1 ELSE ch_handled
    /\ AfterContinue
    /\ UNCHANGED <<ch_class, ch_max, chatFrame>>

\* the completion ends with finish_reason "length" and no tool calls:
\* LLMBase and OpenAIProvider append the user message "continue" and loop
\* (base.py lines 169-171); LLMClient returns the content it got
CompletionIsCut ==
    /\ ch_pc = "loop"
    /\ ch_completions < MaxCompletions
    /\ ch_completions' = ch_completions + 1
    /\ IF ForLoop(ch_class)
       THEN /\ ch_pc' = "returned"
            /\ UNCHANGED ch_iteration
       ELSE AfterContinue
    /\ UNCHANGED <<ch_class, ch_max, ch_handled, chatFrame>>

\* the completion is a final answer: the content is returned
CompletionAnswers ==
    /\ ch_pc = "loop"
    /\ ch_completions < MaxCompletions
    /\ ch_completions' = ch_completions + 1
    /\ ch_pc' = "returned"
    /\ UNCHANGED <<ch_class, ch_max, ch_iteration, ch_handled, chatFrame>>

\* _do_completion raises, or LLMClient gets neither content nor tool
\* calls and raises RuntimeError (llm.py line 161)
ChatCompletionRaises ==
    /\ ch_pc = "loop"
    /\ ch_completions < MaxCompletions
    /\ ch_completions' = ch_completions + 1
    /\ ch_pc' = "raised"
    /\ UNCHANGED <<ch_class, ch_max, ch_iteration, ch_handled, chatFrame>>

NextChat ==
    \/ ChatCalled
    \/ CompletionRequestsTools
    \/ CompletionIsCut
    \/ CompletionAnswers
    \/ ChatCompletionRaises

SpecChat == Init /\ [][NextChat]_vars

\* C35: chat(messages, max_iterations) invokes tool handlers in at most
\* max_iterations iterations of its loop, and it makes a bounded number of
\* completions, whatever the LLM asks for: it has returned or raised
\* before a completion beyond the one that follows the last iteration
\* allowed to use tools
C35_ChatIsBounded ==
    /\ ch_handled <= ch_max
    /\ ch_completions > ch_max + 1 => ch_pc \in {"returned", "raised"}

\* ------------------------------------------------------------------------
\* The message list over the runs of the agent
\* (agent/core/agent.py Agent.run, agent/llm.py LLMClient.chat)
\* ------------------------------------------------------------------------
\* a message of the list: its role, the ids of its tool calls and, for a
\* tool message, the id it answers
LoopMessage(role, calls, id) ==
    [role |-> role, calls |-> calls, tool_call_id |-> id]

\* the ids the LLM gives the n tool calls of the completion number t of
\* the run number r
CallIds(r, t, n) == [i \in 1..n |-> 100 * r + 10 * t + i]

\* llm.py lines 123-157: one tool message per tool call of the message
ToolMessagesFor(calls) ==
    [i \in DOMAIN calls |-> LoopMessage("tool", <<>>, calls[i])]

\* Agent.run, line 305: the user prompt is appended to self.messages and
\* chat is called on that list
LoopRun ==
    /\ lp_pc = "idle"
    /\ lp_runs < MaxRuns
    /\ lp_runs' = lp_runs + 1
    /\ lp_turns' = 0
    /\ lp_messages' = Append(lp_messages, LoopMessage("user", <<>>, 0))
    /\ lp_pc' = "chat"
    /\ UNCHANGED <<lp_sent, loopFrame>>

\* Agent.run, lines 310-317: whether chat returned or raised, the finally
\* clause appends an assistant message holding the response or the error
RunFinally(msgs) == Append(msgs, LoopMessage("assistant", <<>>, 0))

\* an iteration of LLMClient.chat whose completion holds content: the
\* message, with the n tool calls it may also hold, is appended and its
\* content returned (lines 116-120)
LoopContent ==
    /\ lp_pc = "chat"
    /\ \E n \in 0..MaxCalls :
        lp_messages' = RunFinally(Append(lp_messages,
            LoopMessage("assistant", CallIds(lp_runs, lp_turns + 1, n), 0)))
    /\ lp_sent' = lp_messages
    /\ lp_turns' = lp_turns + 1
    /\ lp_pc' = "idle"
    /\ UNCHANGED <<lp_runs, loopFrame>>

\* an iteration whose completion holds tool calls and no content, all of
\* them with arguments json.loads accepts: the message and one tool
\* message per call are appended and the loop goes on (lines 122-159);
\* after max_iterations iterations TimeoutError is raised (line 163)
LoopToolCalls ==
    /\ lp_pc = "chat"
    /\ \E n \in 1..MaxCalls :
        LET calls == CallIds(lp_runs, lp_turns + 1, n)
            msgs == Append(lp_messages, LoopMessage("assistant", calls, 0))
                        \o ToolMessagesFor(calls)
        IN  IF lp_turns + 1 = MaxTurns
            THEN /\ lp_messages' = RunFinally(msgs)
                 /\ lp_pc' = "idle"
            ELSE /\ lp_messages' = msgs
                 /\ lp_pc' = "chat"
    /\ lp_sent' = lp_messages
    /\ lp_turns' = lp_turns + 1
    /\ UNCHANGED <<lp_runs, loopFrame>>

\* an iteration whose completion holds tool calls of which one has
\* arguments that are no JSON: json.loads, line 140, is outside the try and
\* raises after the message was appended and before messages.extend
LoopBadArguments ==
    /\ lp_pc = "chat"
    /\ \E n \in 1..MaxCalls :
        lp_messages' = RunFinally(Append(lp_messages,
            LoopMessage("assistant", CallIds(lp_runs, lp_turns + 1, n), 0)))
    /\ lp_sent' = lp_messages
    /\ lp_turns' = lp_turns + 1
    /\ lp_pc' = "idle"
    /\ UNCHANGED <<lp_runs, loopFrame>>

\* _do_completion raises: nothing is appended by chat
LoopCompletionRaises ==
    /\ lp_pc = "chat"
    /\ lp_messages' = RunFinally(lp_messages)
    /\ lp_sent' = lp_messages
    /\ lp_turns' = lp_turns + 1
    /\ lp_pc' = "idle"
    /\ UNCHANGED <<lp_runs, loopFrame>>

NextLoop ==
    \/ LoopRun
    \/ LoopContent
    \/ LoopToolCalls
    \/ LoopBadArguments
    \/ LoopCompletionRaises

SpecLoop == Init /\ [][NextLoop]_vars

\* the tool calls of the message at position i are answered: the messages
\* that follow it, up to the next one that is no tool message, are one
\* tool message for each of its ids
Answered(msgs, i) ==
    LET n == Len(msgs[i].calls)
    IN  /\ i + n <= Len(msgs)
        /\ \A k \in 1..n : msgs[i + k].role = "tool"
        /\ \A c \in 1..n :
              Cardinality({k \in 1..n :
                  msgs[i + k].tool_call_id = msgs[i].calls[c]}) = 1
        /\ i + n < Len(msgs) => msgs[i + n + 1].role # "tool"

\* C36: in the list every completion is issued with, each assistant
\* message with tool calls is followed, before any later assistant or user
\* message, by exactly one tool message per tool_call id
C36_ToolCallsAreAnswered ==
    \A i \in DOMAIN lp_sent :
        (lp_sent[i].role = "assistant" /\ lp_sent[i].calls # <<>>)
            => Answered(lp_sent, i)

\* ------------------------------------------------------------------------
\* The heartbeat timer of the Scheduler (agent/main.py Scheduler.run)
\* ------------------------------------------------------------------------
\* an arm-task is pending: created, not cancelled, its sleep not over or
\* its HeartbeatEvent not yet put
TimerPending == \E t \in TaskIds : tasks[t].st = "sleeping"

\* C37: the Scheduler never waits at queue.get() on an empty queue with no
\* heartbeat timer pending, so that after every event it has taken, also
\* one skipped because the container check failed, a HeartbeatEvent is
\* enqueued when no other event arrives
C37_HeartbeatAlwaysComes ==
    (pc = "take" /\ queue = <<>>) => TimerPending

\* C38: at every moment at most one heartbeat-arm task is pending (created,
\* not cancelled and not yet fired)
C38_OneArmTaskPending ==
    Cardinality({t \in TaskIds : tasks[t].st = "sleeping"}) <= 1

\* the re-arm found the arm-task of the event before still pending and
\* cancelled it before it created the new one
C38_Witness ==
    \E t, u \in TaskIds :
        /\ tasks[t].st = "cancelled"
        /\ tasks[u].st = "sleeping"
        /\ heartbeat_task = u

\* ------------------------------------------------------------------------
\* LLMClient._do_completion: the rate limiter (agent/llm.py lines 69-93,
\* agent/llm_openai.py lines 47-71)
\* ------------------------------------------------------------------------
TicksPerSecond == 2
MaxClock == 4
MaxRequests == 3

\* self._rate_limit_secs = 1, in ticks
RateLimitSecs == 1
RateLimit == RateLimitSecs * TicksPerSecond

\* time passes
RateTick ==
    /\ rl_clock < MaxClock
    /\ rl_clock' = rl_clock + 1
    /\ UNCHANGED <<rl_next, rl_lock, rl_reserved, rl_starts, rateFrame>>

\* wait_time = now - next_request_time, the time the request sleeps when
\* it is positive
WaitTime(now, next_request_time) == now - next_request_time

\* a request enters `async with self._rate_limit_lock`: it reserves
\* max(_next_request_time, now), moves _next_request_time one rate limit
\* further, sleeps wait_time if that is positive and calls the API
RequestStarts ==
    /\ ~rl_lock
    /\ Len(rl_starts) < MaxRequests
    /\ LET now == rl_clock
           next_request_time == Max(rl_next, now)
           wait_time == WaitTime(now, next_request_time)
           slept == IF wait_time > 0 THEN wait_time ELSE 0
       IN  /\ rl_next' = next_request_time + RateLimit
           /\ rl_reserved' = Append(rl_reserved, next_request_time)
           /\ rl_clock' = now + slept
           /\ rl_starts' = Append(rl_starts, now + slept)
    /\ rl_lock' = TRUE
    /\ UNCHANGED rateFrame

\* the API call returns or raises for good: the lock is released
RequestEnds ==
    /\ rl_lock
    /\ rl_lock' = FALSE
    /\ UNCHANGED <<rl_clock, rl_next, rl_reserved, rl_starts, rateFrame>>

NextRate ==
    \/ RateTick
    \/ RequestStarts
    \/ RequestEnds

SpecRate == Init /\ [][NextRate]_vars

\* C39: every request reserves a start time at least _rate_limit_secs after
\* the one reserved before it and does not call the API before its reserved
\* time, so two requests never start less than _rate_limit_secs apart
C39_RequestsAreRateLimited ==
    /\ \A i \in 2..Len(rl_reserved) :
          rl_reserved[i] >= rl_reserved[i - 1] + RateLimit
    /\ \A i \in DOMAIN rl_starts : rl_starts[i] >= rl_reserved[i]
    /\ \A i \in 2..Len(rl_starts) :
          rl_starts[i] >= rl_starts[i - 1] + RateLimit

\* ------------------------------------------------------------------------
\* AgentEvents.request_input (agent/core/events.py)
\* ------------------------------------------------------------------------
MaxInputs == 3
Callers == 1..MaxCallers

\* an InputEvent: its type and the request its data answers, 0 for input
\* the user gave unasked
InputEvent(type, answers) == [type |-> type, answers |-> answers]
Returned(e) == [returned |-> TRUE, type |-> e.type, answers |-> e.answers]

\* the requests published and not yet returned from
Published == {ev_output[i].request : i \in DOMAIN ev_output}

\* the front end puts an InputEvent on AgentEvents.input: the answer to a
\* request it has seen on the output queue, or USER_INPUT, asked for or
\* not; asyncio.Queue hands the item to the getter that waits longest,
\* and keeps it when nobody waits
PutInput ==
    /\ ev_puts < MaxInputs
    /\ \E e \in {InputEvent("approval_result", r) : r \in Published}
                  \cup {InputEvent("user_input", r) : r \in Published \cup {0}} :
        IF ev_getters # <<>>
        THEN /\ ev_returned' = [ev_returned EXCEPT
                                  ![Head(ev_getters)] = Returned(e)]
             /\ ev_getters' = Tail(ev_getters)
             /\ UNCHANGED ev_input
        ELSE /\ ev_input' = Append(ev_input, e)
             /\ UNCHANGED <<ev_getters, ev_returned>>
    /\ ev_puts' = ev_puts + 1
    /\ UNCHANGED <<ev_output, eventFrame>>

\* request_input(APPROVAL_REQUEST, data), lines 43-52, called for the
\* request c: publish puts the OutputEvent, then `await self.input.get()`
\* returns the oldest item of the input queue, or waits for one
RequestInput ==
    /\ \E c \in Callers :
        /\ c \notin Published
        /\ ev_output' = Append(ev_output,
                               [type |-> "approval_request", request |-> c])
        /\ IF ev_input # <<>>
           THEN /\ ev_returned' = [ev_returned EXCEPT
                                     ![c] = Returned(Head(ev_input))]
                /\ ev_input' = Tail(ev_input)
                /\ UNCHANGED ev_getters
           ELSE /\ ev_getters' = Append(ev_getters, c)
                /\ UNCHANGED <<ev_input, ev_returned>>
    /\ UNCHANGED <<ev_puts, eventFrame>>

NextEvents ==
    \/ PutInput
    \/ RequestInput

SpecEvents == Init /\ [][NextEvents]_vars

\* C40: request_input returns the data of an input event that answers its
\* own request: never an event of another kind, never one queued before
\* the request was published, never the answer to another request
C40_OwnAnswerReturned ==
    \A c \in Callers :
        ev_returned[c].returned =>
            /\ ev_returned[c].type = "approval_result"
            /\ ev_returned[c].answers = c

====
